---- MODULE Spec2Model ----
(***************************************************************************)
(* Model of the page locator of the book processor:                        *)
(* extractBookScreenshots, isFirstPage and analyzeScreenshots of           *)
(* apps/processor/src/services/bookInfoService.js.                         *)
(*                                                                         *)
(* One run of extractBookScreenshots is a sequence of steps, one per       *)
(* awaited external call (the dynamic imports, the `which` commands of     *)
(* getChromePath, launch, newPage, setViewport, setUserAgent, goto,        *)
(* waitForFunction, screenshot, classifier, click, debug write, close).    *)
(* Each external call either resolves or rejects; the outcome is chosen    *)
(* nondeterministically.  A rejected browser.close() makes the function    *)
(* raise, the close being awaited in the finally block.                    *)
(*                                                                         *)
(* One request is a run of processBookCover.  The repository holds two     *)
(* versions of it: the text version of services/bookProcessor.js, which    *)
(* the server imports and which ends in fetchBookPreviewText               *)
(* (ProcessSpec, with the /api/process handler around it), and the capture *)
(* version of bookInfoService.js (line 252), which ends in                 *)
(* extractBookScreenshots and analyzeScreenshots (CaptureSpec).  Within a  *)
(* capture request the run of extractBookScreenshots takes the same steps  *)
(* as in Spec, between its call and the settling of that call.             *)
(*                                                                         *)
(* analyzeScreenshots is also modelled on its own (AnalyzeSpec), for lists *)
(* of several screenshots, one step per transcription call.  So is the     *)
(* identity that fetchBookByISBN and searchBookAPI build from a provider   *)
(* record, with its fiction classification (ClassifySpec).                 *)
(*                                                                         *)
(* A request of the text version draws its guess from BookGuesses and its  *)
(* record from ProviderVolumes.  A request of the capture version draws    *)
(* them from the members of these sets that the bounds MaxCaptureGuesses   *)
(* and MaxCaptureVolumes admit.                                            *)
(*                                                                         *)
(* Strings that the code searches (category tags, descriptions, titles,    *)
(* classifier replies) are sequences of characters; the signal counts of   *)
(* improvedFictionDetection are doubled to stay in the integers.           *)
(***************************************************************************)
EXTENDS Integers, Sequences, FiniteSets, TLC

VARIABLES
    pc,                 \* position in extractBookScreenshots
    bookIsFiction,      \* parameter bookIsFiction
    isProd,             \* process.env.NODE_ENV === 'production'
    browserConfig,      \* launch options chosen by the environment probe
    browser,            \* "undefined", "open" or "closed"
    buttonHandle,       \* handle returned by page.waitForFunction
    i,                  \* loop counter of the capture loop
    foundfirst,         \* let foundfirst
    base64Screenshot,   \* <<>> for an empty string, <<p>> for an image of page p
    screenshots,        \* the array declared before the try block (line 507)
    screenshotsInner,   \* the array declared inside the try block (line 573)
    viewerPage,         \* page the remote viewer currently shows
    result,             \* object returned to the caller
    outcome,            \* "pending", "returned" or "threw"
    error,              \* the call that rejected, "none" when none did
    launches,           \* successful launch calls
    closeCalls,         \* browser.close() calls
    screenshotCalls,    \* page.screenshot() calls
    classifyCalls,      \* isFirstPage() calls
    clickAttempts,      \* next-page click calls
    lastAccept,         \* screenshot given to the latest accepting classification
    clicksAfterAccept,  \* click calls issued after the latest accepting classification
    fictionAdvance,     \* outcome of the extra click of the fiction branch
    endOfPreview,       \* a click of the "not yet" branch has been rejected
    nextControl,        \* next-page control in the viewer: "unknown", "present", "absent"
    variant,            \* "text" or "capture" processBookCover; "none" outside a request
    apiKey,             \* process.env.OPENAI_API_KEY is set
    rpc,                \* position in processBookCover
    bookDetails,        \* identity guess read from the cover
    bookInfo,           \* identity returned by fetchBookInfo
    calls,              \* external calls issued by the request, in order
    previewText,        \* let previewText of fetchBookPreviewText
    sourceInfo,         \* let sourceInfo of fetchBookPreviewText
    yields,             \* what each cascade method has yielded so far
    extractedText,      \* let extractedText of the capture version
    out,                \* what processBookCover gives its caller
    matched,            \* provider record fetchBookInfo built the identity from
    viewability,        \* accessInfo.viewability answered to Method 1
    archive,            \* transcript read by Method 2 and the window cut from it
    classifierFailed,   \* the classifier's model call of this iteration was rejected
    shotIteration,      \* value of i when the latest page.screenshot() was issued
    classifiedIteration, \* shotIteration of the screenshot last handed to isFirstPage
    whichIndex,         \* position in the list of browsers getChromePath asks `which` for
    isValidBookCover,   \* const isValidBookCover of processBookCover
    response,           \* what the /api/process handler has answered
    analyzePc,          \* position in analyzeScreenshots
    shots,              \* parameter screenshots of analyzeScreenshots
    shotIndex,          \* loop counter of analyzeScreenshots
    combinedText,       \* let combinedText
    transcript,         \* value analyzeScreenshots returns
    pageAnswers         \* outcome of each transcription call, in order

vars == <<pc, bookIsFiction, isProd, browserConfig, browser, buttonHandle, i,
          foundfirst, base64Screenshot, screenshots, screenshotsInner,
          viewerPage, result, outcome, error, launches, closeCalls,
          screenshotCalls, classifyCalls, clickAttempts, lastAccept,
          clicksAfterAccept, fictionAdvance, endOfPreview, nextControl,
          variant, apiKey, rpc, bookDetails, bookInfo, calls, previewText,
          sourceInfo, yields, extractedText, out, matched, viewability, archive,
          classifierFailed, shotIteration, classifiedIteration, whichIndex,
          isValidBookCover, response, analyzePc, shots, shotIndex,
          combinedText, transcript, pageAnswers>>

requestVars == <<variant, apiKey, rpc, bookDetails, bookInfo, calls, previewText,
                 sourceInfo, yields, extractedText, out, matched, viewability,
                 archive, isValidBookCover, response>>

analyzeVars == <<analyzePc, shots, shotIndex, combinedText, transcript,
                 pageAnswers>>

\* for (let i = 1; i <= 15; i++)
MaxAttempts == 15

(***************************************************************************)
(* isFirstPage: the classifier's reply text is lower-cased and searched    *)
(* for "yes"; a rejected model call is logged and the function falls off   *)
(* its end, returning undefined.                                           *)
(***************************************************************************)
toLowerCase(s) ==
    [k \in DOMAIN s |->
        CASE s[k] = "A" -> "a"
          [] s[k] = "B" -> "b"
          [] s[k] = "C" -> "c"
          [] s[k] = "D" -> "d"
          [] s[k] = "E" -> "e"
          [] s[k] = "F" -> "f"
          [] s[k] = "G" -> "g"
          [] s[k] = "H" -> "h"
          [] s[k] = "I" -> "i"
          [] s[k] = "J" -> "j"
          [] s[k] = "K" -> "k"
          [] s[k] = "L" -> "l"
          [] s[k] = "M" -> "m"
          [] s[k] = "N" -> "n"
          [] s[k] = "O" -> "o"
          [] s[k] = "P" -> "p"
          [] s[k] = "Q" -> "q"
          [] s[k] = "R" -> "r"
          [] s[k] = "S" -> "s"
          [] s[k] = "T" -> "t"
          [] s[k] = "U" -> "u"
          [] s[k] = "V" -> "v"
          [] s[k] = "W" -> "w"
          [] s[k] = "X" -> "x"
          [] s[k] = "Y" -> "y"
          [] s[k] = "Z" -> "z"
          [] OTHER -> s[k]]

includes(s, sub) ==
    \E k \in 0..(Len(s) - Len(sub)) :
        \A j \in 1..Len(sub) : s[k + j] = sub[j]

YesToken == <<"y", "e", "s">>

\* Reply texts of the vision model; Rejected stands for a failed model call.
Rejected == <<"!">>
ReplyTexts == { <<"y", "e", "s">>, <<"Y", "E", "S", ".">>, <<" ", "Y", "e", "s", "\n">>,
                <<"n", "o">>, <<"N", "o", ".">> }
ClassifierReplies == ReplyTexts \cup {Rejected}

isFirstPage(reply) ==
    IF reply = Rejected
    THEN [defined |-> FALSE, value |-> FALSE]
    ELSE [defined |-> TRUE, value |-> includes(toLowerCase(reply), YesToken)]

\* v ?? d
NullishCoalesce(v, d) == IF v.defined THEN v.value ELSE d

NoResult == [success |-> FALSE, screenshots |-> <<>>, message |-> ""]

(***************************************************************************)
(* Values of a request.  Null stands for JSON null, Undefined for a field  *)
(* that is absent.  A text is a record: len is its length, origin the      *)
(* provider call whose answer it is; the empty string is EmptyText.        *)
(***************************************************************************)
Null == "null"
Undefined == "undefined"

\* JavaScript truthiness of a field that holds Null, Undefined or a value.
Truthy(v) == v \notin {Null, Undefined, "false", ""}

\* a || b
OrElse(a, b) == IF Truthy(a) THEN a ELSE b

EmptyText == [origin |-> "none", len |-> 0, page |-> 0, window |-> <<>>, tokens |-> <<>>]

TextTruthy(t) == t.len > 0

\* What identifyBook returns: the object parsed from the model's JSON reply,
\* whatever fields it holds.  Each of title, author and isbn is null or a
\* value, isFiction is true, false, null or absent; EmptyGuess is the reply {}
\* and WordedGuess a reply whose isFiction is a word, not a boolean.
EmptyGuess ==
    [title |-> Undefined, author |-> Undefined, isbn |-> Undefined,
     isFiction |-> Undefined]

WordedGuess ==
    [title |-> "Dune", author |-> "Frank Herbert", isbn |-> Null,
     isFiction |-> "fiction"]

BookGuesses ==
    [title : {Null, "Dune"}, author : {Null, "Frank Herbert"},
     isbn : {Null, "9780441013593"},
     isFiction : {"true", "false", Null, Undefined}]
        \cup {EmptyGuess, WordedGuess}

NoDetails == [title |-> Null, author |-> Null, isbn |-> Null, isFiction |-> Undefined]

\* Provider records with every field the code reads but, for some, the
\* categories, the identifier or the description.  categories is <<>> when the
\* record has no category tags.
ClassifiedRecords ==
    [title : {"Dune", "How to Read a Book", "The Left Hand of Darkness"},
     author : {"Frank Herbert"},
     categories : {<<>>, <<"Fiction", "Science Fiction">>,
                   <<"Biography & Autobiography">>},
     identifier : {Null, "9780441013593"},
     description : {Null, "A novel.", "A history.", "A biography."},
     previewLink : {"https://books.google.com/books?id=vol1"},
     id : {"vol1"}]

\* Records that lack a title, authors or a preview link as well.
SparseVolumes ==
    [title : {Undefined, "Dune"},
     author : {Undefined, "Frank Herbert"},
     categories : {<<>>},
     identifier : {Null},
     description : {Null, "A novel."},
     previewLink : {Undefined},
     id : {"vol1"}]

\* Top-ranked volume of a bibliographic lookup within a request: the fields of
\* items[0] that fetchBookByISBN and searchBookAPI read.
ProviderVolumes == ClassifiedRecords \cup SparseVolumes

\* A request of the capture version runs the whole of extractBookScreenshots
\* for every identity it can resolve, so its guesses and volumes are bounded:
\* the first MaxCaptureGuesses of CaptureGuessOrder and the first
\* MaxCaptureVolumes of CaptureVolumeOrder, all of them members of BookGuesses
\* and ProviderVolumes.  With the bounds 2 and 1 the version resolves a
\* fiction identity by ISBN, a non-fiction one by search, non-fiction defaults
\* that keep an ISBN, and fiction defaults without any preview.
MaxCaptureGuesses == 2

MaxCaptureVolumes == 1

CaptureGuessOrder ==
    <<[title |-> "Dune", author |-> "Frank Herbert", isbn |-> "9780441013593",
       isFiction |-> "false"],
      [title |-> Null, author |-> Null, isbn |-> Null, isFiction |-> Undefined],
      EmptyGuess>>

CaptureVolumeOrder ==
    <<[title |-> "How to Read a Book", author |-> "Frank Herbert",
       categories |-> <<>>, identifier |-> Null, description |-> "A biography.",
       previewLink |-> "https://books.google.com/books?id=vol1", id |-> "vol1"],
      [title |-> "Dune", author |-> "Frank Herbert",
       categories |-> <<"Fiction", "Science Fiction">>,
       identifier |-> "9780441013593", description |-> "A novel.",
       previewLink |-> "https://books.google.com/books?id=vol1", id |-> "vol1"]>>

CaptureGuesses ==
    {CaptureGuessOrder[k] : k \in {j \in DOMAIN CaptureGuessOrder : j <= MaxCaptureGuesses}}

CaptureVolumes ==
    {CaptureVolumeOrder[k] : k \in {j \in DOMAIN CaptureVolumeOrder : j <= MaxCaptureVolumes}}

\* The replies and the volumes drawn within a request of the given version.
GuessesOf(version) == IF version = "capture" THEN CaptureGuesses ELSE BookGuesses

VolumesOf(version) == IF version = "capture" THEN CaptureVolumes ELSE ProviderVolumes

\* No record was matched.
NoVolume ==
    [title |-> Null, author |-> Null, categories |-> <<>>, identifier |-> Null,
     description |-> Null, previewLink |-> Null, id |-> Null]

\* The characters of the strings the model uses.
Chars(str) ==
    CASE str = "Dune" ->
           <<"D", "u", "n", "e">>
      [] str = "How to Read a Book" ->
           <<"H", "o", "w", " ", "t", "o", " ", "R", "e", "a", "d", " ", "a", " ", "B", "o", "o", "k">>
      [] str = "The Left Hand of Darkness" ->
           <<"T", "h", "e", " ", "L", "e", "f", "t", " ", "H", "a", "n", "d", " ", "o", "f", " ", "D", "a", "r", "k", "n", "e", "s", "s">>
      [] str = "A novel." ->
           <<"A", " ", "n", "o", "v", "e", "l", ".">>
      [] str = "A history." ->
           <<"A", " ", "h", "i", "s", "t", "o", "r", "y", ".">>
      [] str = "A biography." ->
           <<"A", " ", "b", "i", "o", "g", "r", "a", "p", "h", "y", ".">>
      [] str = "Fiction" ->
           <<"F", "i", "c", "t", "i", "o", "n">>
      [] str = "Science Fiction" ->
           <<"S", "c", "i", "e", "n", "c", "e", " ", "F", "i", "c", "t", "i", "o", "n">>
      [] str = "Biography & Autobiography" ->
           <<"B", "i", "o", "g", "r", "a", "p", "h", "y", " ", "&", " ", "A", "u", "t", "o", "b", "i", "o", "g", "r", "a", "p", "h", "y">>
      [] str = "OpenAI API key is missing" ->
           <<"O", "p", "e", "n", "A", "I", " ", "A", "P", "I", " ", "k", "e", "y", " ", "i", "s", " ", "m", "i", "s", "s", "i", "n", "g">>
      [] str = "Failed to validate book cover" ->
           <<"F", "a", "i", "l", "e", "d", " ", "t", "o", " ", "v", "a", "l", "i", "d", "a", "t", "e", " ", "b", "o", "o", "k", " ", "c", "o", "v", "e", "r">>
      [] str = "Failed to identify the book from the cover" ->
           <<"F", "a", "i", "l", "e", "d", " ", "t", "o", " ", "i", "d", "e", "n", "t", "i", "f", "y", " ", "t", "h", "e", " ", "b", "o", "o", "k", " ", "f", "r", "o", "m", " ", "t", "h", "e", " ", "c", "o", "v", "e", "r">>
      [] str = "browser.close() failed" ->
           <<"b", "r", "o", "w", "s", "e", "r", ".", "c", "l", "o", "s", "e", "(", ")", " ", "f", "a", "i", "l", "e", "d">>
      [] str = "not a valid book cover" ->
           <<"n", "o", "t", " ", "a", " ", "v", "a", "l", "i", "d", " ", "b", "o", "o", "k", " ", "c", "o", "v", "e", "r">>
      [] str = "The image is not a valid book cover" ->
           <<"T", "h", "e", " ", "i", "m", "a", "g", "e", " ", "i", "s", " ", "n", "o", "t", " ", "a", " ", "v", "a", "l", "i", "d", " ", "b", "o", "o", "k", " ", "c", "o", "v", "e", "r">>
      [] str = "Unknown error" ->
           <<"U", "n", "k", "n", "o", "w", "n", " ", "e", "r", "r", "o", "r">>
      [] str = "Request timed out" ->
           <<"R", "e", "q", "u", "e", "s", "t", " ", "t", "i", "m", "e", "d", " ", "o", "u", "t">>
      [] str = "Could not extract book information from the image" ->
           <<"C", "o", "u", "l", "d", " ", "n", "o", "t", " ", "e", "x", "t", "r", "a", "c", "t", " ", "b", "o", "o", "k", " ", "i", "n", "f", "o", "r", "m", "a", "t", "i", "o", "n", " ", "f", "r", "o", "m", " ", "t", "h", "e", " ", "i", "m", "a", "g", "e">>
      [] str = "Unexpected end of JSON input" ->
           <<"U", "n", "e", "x", "p", "e", "c", "t", "e", "d", " ", "e", "n", "d", " ", "o", "f", " ", "J", "S", "O", "N", " ", "i", "n", "p", "u", "t">>
      [] OTHER -> <<>>

(***************************************************************************)
(* Fiction classification: isFictionCategory and improvedFictionDetection. *)
(***************************************************************************)
\* const nonFictionKeywords of isFictionCategory
nonFictionKeywords ==
    { <<"b", "i", "o", "g", "r", "a", "p", "h", "y">>,
      <<"h", "i", "s", "t", "o", "r", "y">>,
      <<"s", "c", "i", "e", "n", "c", "e">>,
      <<"t", "e", "c", "h", "n", "o", "l", "o", "g", "y">>,
      <<"b", "u", "s", "i", "n", "e", "s", "s">>,
      <<"s", "e", "l", "f", "-", "h", "e", "l", "p">>,
      <<"c", "o", "o", "k", "i", "n", "g">>,
      <<"t", "r", "a", "v", "e", "l">>,
      <<"r", "e", "f", "e", "r", "e", "n", "c", "e">>,
      <<"e", "d", "u", "c", "a", "t", "i", "o", "n">>,
      <<"p", "h", "i", "l", "o", "s", "o", "p", "h", "y">>,
      <<"r", "e", "l", "i", "g", "i", "o", "n">>,
      <<"p", "o", "l", "i", "t", "i", "c", "s">>,
      <<"e", "c", "o", "n", "o", "m", "i", "c", "s">>,
      <<"m", "e", "d", "i", "c", "i", "n", "e">>,
      <<"l", "a", "w">>,
      <<"m", "a", "t", "h", "e", "m", "a", "t", "i", "c", "s">>,
      <<"c", "o", "m", "p", "u", "t", "e", "r", "s">>,
      <<"n", "a", "t", "u", "r", "e">>,
      <<"a", "r", "t", " ", "h", "i", "s", "t", "o", "r", "y">> }

\* lowerCategory.includes("non-fiction") || lowerCategory.includes("nonfiction")
NonFictionMarks ==
    { <<"n", "o", "n", "-", "f", "i", "c", "t", "i", "o", "n">>,
      <<"n", "o", "n", "f", "i", "c", "t", "i", "o", "n">> }

\* A category tag that makes isFictionCategory return false.
IsNonFictionCategory(category) ==
    LET lowerCategory == toLowerCase(Chars(category))
    IN  \/ \E keyword \in nonFictionKeywords : includes(lowerCategory, keyword)
        \/ \E mark \in NonFictionMarks : includes(lowerCategory, mark)

\* isFictionCategory: true for no categories; false as soon as one category
\* contains a non-fiction keyword; true otherwise.
RECURSIVE CategoriesFrom(_, _)
CategoriesFrom(categories, k) ==
    IF k > Len(categories) THEN TRUE
    ELSE IF IsNonFictionCategory(categories[k]) THEN FALSE
    ELSE CategoriesFrom(categories, k + 1)

isFictionCategory(categories) ==
    IF Len(categories) = 0 THEN TRUE ELSE CategoriesFrom(categories, 1)

\* const fictionWords of improvedFictionDetection
fictionWords ==
    { <<"n", "o", "v", "e", "l">>,
      <<"f", "i", "c", "t", "i", "o", "n">>,
      <<"s", "t", "o", "r", "y">>,
      <<"a", "d", "v", "e", "n", "t", "u", "r", "e">>,
      <<"f", "a", "n", "t", "a", "s", "y">>,
      <<"p", "r", "o", "t", "a", "g", "o", "n", "i", "s", "t">>,
      <<"c", "h", "a", "r", "a", "c", "t", "e", "r">>,
      <<"h", "e", "r", "o">>,
      <<"m", "a", "g", "i", "c", "a", "l">>,
      <<"r", "o", "m", "a", "n", "c", "e">>,
      <<"t", "h", "r", "i", "l", "l", "e", "r">>,
      <<"m", "y", "s", "t", "e", "r", "y">>,
      <<"s", "c", "i", "-", "f", "i">>,
      <<"s", "c", "i", "e", "n", "c", "e", " ", "f", "i", "c", "t", "i", "o", "n">>,
      <<"d", "y", "s", "t", "o", "p", "i", "a", "n">>,
      <<"j", "o", "u", "r", "n", "e", "y">>,
      <<"t", "a", "l", "e">>,
      <<"l", "e", "g", "e", "n", "d">>,
      <<"e", "p", "i", "c">>,
      <<"s", "a", "g", "a">> }

\* const nonfictionWords of improvedFictionDetection
nonfictionWords ==
    { <<"h", "i", "s", "t", "o", "r", "y">>,
      <<"g", "u", "i", "d", "e">>,
      <<"a", "n", "a", "l", "y", "s", "i", "s">>,
      <<"r", "e", "s", "e", "a", "r", "c", "h">>,
      <<"b", "i", "o", "g", "r", "a", "p", "h", "y">>,
      <<"a", "u", "t", "o", "b", "i", "o", "g", "r", "a", "p", "h", "y">>,
      <<"m", "e", "m", "o", "i", "r">>,
      <<"r", "e", "f", "e", "r", "e", "n", "c", "e">>,
      <<"t", "e", "x", "t", "b", "o", "o", "k">>,
      <<"e", "x", "a", "m", "i", "n", "a", "t", "i", "o", "n">>,
      <<"s", "t", "u", "d", "y">>,
      <<"r", "e", "p", "o", "r", "t">>,
      <<"h", "a", "n", "d", "b", "o", "o", "k">>,
      <<"m", "a", "n", "u", "a", "l">>,
      <<"i", "n", "v", "e", "s", "t", "i", "g", "a", "t", "i", "o", "n">>,
      <<"p", "h", "i", "l", "o", "s", "o", "p", "h", "y">>,
      <<"t", "h", "e", "o", "r", "y">>,
      <<"a", "r", "g", "u", "m", "e", "n", "t">>,
      <<"t", "h", "e", "s", "i", "s">>,
      <<"e", "x", "p", "l", "o", "r", "a", "t", "i", "o", "n">>,
      <<"a", "c", "c", "o", "u", "n", "t">>,
      <<"c", "h", "r", "o", "n", "i", "c", "l", "e">>,
      <<"j", "o", "u", "r", "n", "a", "l">>,
      <<"e", "s", "s", "a", "y">>,
      <<"d", "o", "c", "u", "m", "e", "n", "t", "a", "r", "y">> }

\* /^(how to|the art of|introduction to|guide to|principles of|history of|the science of)/i
TitlePatterns ==
    { <<"h", "o", "w", " ", "t", "o">>,
      <<"t", "h", "e", " ", "a", "r", "t", " ", "o", "f">>,
      <<"i", "n", "t", "r", "o", "d", "u", "c", "t", "i", "o", "n", " ", "t", "o">>,
      <<"g", "u", "i", "d", "e", " ", "t", "o">>,
      <<"p", "r", "i", "n", "c", "i", "p", "l", "e", "s", " ", "o", "f">>,
      <<"h", "i", "s", "t", "o", "r", "y", " ", "o", "f">>,
      <<"t", "h", "e", " ", "s", "c", "i", "e", "n", "c", "e", " ", "o", "f">> }

startsWith(s, prefix) ==
    /\ Len(prefix) <= Len(s)
    /\ \A j \in 1..Len(prefix) : s[j] = prefix[j]

\* title.split(" ").length
SplitLength(s) == Cardinality({k \in DOMAIN s : s[k] = " "}) + 1

\* The two signal counts of improvedFictionDetection, doubled so that the
\* bonus of 0.5 for a short title is the integer 1 and the bonus of 2 for an
\* instructional title is 4.
fictionSignals(description, title) ==
    (IF Truthy(description)
     THEN 2 * Cardinality({word \in fictionWords :
                              includes(toLowerCase(Chars(description)), word)})
     ELSE 0)
    + (IF Truthy(title) /\ SplitLength(Chars(title)) <= 3 THEN 1 ELSE 0)

nonfictionSignals(description, title) ==
    (IF Truthy(description)
     THEN 2 * Cardinality({word \in nonfictionWords :
                              includes(toLowerCase(Chars(description)), word)})
     ELSE 0)
    + (IF Truthy(title) /\ \E pattern \in TitlePatterns :
                              startsWith(toLowerCase(Chars(title)), pattern)
       THEN 4 ELSE 0)

\* A detection that resolves a tie as non-fiction.
improvedFictionDetectionTieIsNonFiction(categories, description, title) ==
    IF Len(categories) > 0
    THEN isFictionCategory(categories)
    ELSE fictionSignals(description, title) > nonfictionSignals(description, title)

\* improvedFictionDetection: the category verdict when there are categories,
\* else the comparison of the signals, a tie giving true.
improvedFictionDetection(categories, description, title) ==
    IF Len(categories) > 0
    THEN isFictionCategory(categories)
    ELSE IF fictionSignals(description, title) > nonfictionSignals(description, title)
    THEN TRUE
    ELSE IF nonfictionSignals(description, title) > fictionSignals(description, title)
    THEN FALSE
    ELSE TRUE

\* A JavaScript boolean as the model writes it in an identity.
Bool(b) == IF b THEN "true" ELSE "false"

NoInfo ==
    [title |-> Null, author |-> Null, isFiction |-> Undefined, isbn |-> Null,
     description |-> Null, previewLink |-> Null, id |-> Null]

CascadeMethods == {"page", "archive", "ai", "snippet"}

PageSource == "Google Books API page content"
ArchiveSource == "Internet Archive full text"
AISource == "AI-generated excerpt based on book description"
SnippetSource == "Google Books snippet"

NoOut == [kind |-> "pending"]

\* No transcript has been read.
NoArchive == [fetched |-> FALSE, n |-> 0, paraLen |-> 0, window |-> <<>>, length |-> 0]

\* The handler has not answered.
NoResponse == [status |-> 0, body |-> NoOut]

\* What analyzeScreenshots returns for "".
EmptyTranscript == [empty |-> TRUE, title |-> Null, author |-> Null, sections |-> <<>>]

\* No run of analyzeScreenshots has started.
AnalyzeIdle ==
    /\ analyzePc = "idle"
    /\ shots = <<>>
    /\ shotIndex = 0
    /\ combinedText = <<>>
    /\ transcript = EmptyTranscript
    /\ pageAnswers = <<>>

\* No request is in progress: extractBookScreenshots is run on its own.
RequestIdle ==
    /\ isValidBookCover = "unknown"
    /\ response = NoResponse
    /\ variant = "none"
    /\ apiKey = TRUE
    /\ rpc = "none"
    /\ bookDetails = NoDetails
    /\ bookInfo = NoInfo
    /\ calls = <<>>
    /\ previewText = EmptyText
    /\ sourceInfo = ""
    /\ yields = [m \in CascadeMethods |-> "untried"]
    /\ extractedText = EmptyText
    /\ out = NoOut
    /\ matched = NoVolume
    /\ viewability = "unknown"
    /\ archive = NoArchive

Init ==
    /\ pc = "entry"
    /\ bookIsFiction \in BOOLEAN
    /\ isProd \in BOOLEAN
    /\ browserConfig = "empty"
    /\ browser = "undefined"
    /\ buttonHandle = FALSE
    /\ i = 0
    /\ foundfirst = FALSE
    /\ base64Screenshot = <<>>
    /\ screenshots = <<>>
    /\ screenshotsInner = <<>>
    /\ viewerPage = 1
    /\ result = NoResult
    /\ outcome = "pending"
    /\ error = "none"
    /\ launches = 0
    /\ closeCalls = 0
    /\ screenshotCalls = 0
    /\ classifyCalls = 0
    /\ clickAttempts = 0
    /\ lastAccept = "none"
    /\ clicksAfterAccept = 0
    /\ fictionAdvance = "none"
    /\ endOfPreview = FALSE
    /\ nextControl = "unknown"
    /\ classifierFailed = FALSE
    /\ shotIteration = 0
    /\ classifiedIteration = 0
    /\ whichIndex = 0
    /\ RequestIdle
    /\ AnalyzeIdle

\* The variables of the capture loop and of the exit, which the steps that
\* choose and launch the browser leave alone.
captureVars == <<buttonHandle, i, foundfirst, base64Screenshot, screenshots,
                 screenshotsInner, viewerPage, result, outcome, closeCalls,
                 screenshotCalls, classifyCalls, clickAttempts, lastAccept,
                 clicksAfterAccept, fictionAdvance, endOfPreview, nextControl,
                 classifierFailed, shotIteration, classifiedIteration>>

\* Production: chromium = await import('chrome-aws-lambda'), then the spread of
\* chromium.args; a failed import or a failed spread is caught and the default
\* options are used.
ProdImport ==
    /\ pc = "entry"
    /\ isProd
    /\ \E imported \in BOOLEAN, argsIterable \in BOOLEAN :
          IF imported /\ argsIterable
          THEN /\ browserConfig' = browserConfig
               /\ pc' = "prodPath"
          ELSE /\ browserConfig' = "default"
               /\ pc' = "launch"
    /\ UNCHANGED <<bookIsFiction, isProd, browser, error, launches, whichIndex>>
    /\ UNCHANGED captureVars
    /\ UNCHANGED requestVars
    /\ UNCHANGED analyzeVars

\* executablePath: await chromium.executablePath, inside the same try block.
ProdExecutablePath ==
    /\ pc = "prodPath"
    /\ \E resolved \in BOOLEAN :
          browserConfig' = IF resolved THEN "chrome-aws-lambda" ELSE "default"
    /\ pc' = "launch"
    /\ UNCHANGED <<bookIsFiction, isProd, browser, error, launches, whichIndex>>
    /\ UNCHANGED captureVars
    /\ UNCHANGED requestVars
    /\ UNCHANGED analyzeVars

\* const browsers = [...] of getChromePath
NumWhichBrowsers == 6

\* Development: getChromePath() up to its first wait.  A browser at one of the
\* known paths is returned at once; otherwise, except on win32, `which` is
\* tried; on win32 the function throws and the bundled Chromium is tried.
DevConfig ==
    /\ pc = "entry"
    /\ ~isProd
    /\ \E atKnownPath \in BOOLEAN, win32 \in BOOLEAN :
          IF atKnownPath
          THEN /\ browserConfig' = "executablePath"
               /\ pc' = "launch"
          ELSE /\ browserConfig' = browserConfig
               /\ pc' = IF win32 THEN "bundled" ELSE "importChildProcess"
    /\ UNCHANGED <<bookIsFiction, isProd, browser, error, launches, whichIndex>>
    /\ UNCHANGED captureVars
    /\ UNCHANGED requestVars
    /\ UNCHANGED analyzeVars

\* const { exec } = await import('child_process'); a failure is caught and
\* getChromePath throws.
ImportChildProcess ==
    /\ pc = "importChildProcess"
    /\ \E imported \in BOOLEAN :
          pc' = IF imported THEN "importUtil" ELSE "bundled"
    /\ UNCHANGED <<bookIsFiction, isProd, browserConfig, browser, error, launches,
                   whichIndex>>
    /\ UNCHANGED captureVars
    /\ UNCHANGED requestVars
    /\ UNCHANGED analyzeVars

\* const util = await import('util'), then the loop over the browsers starts.
ImportUtil ==
    /\ pc = "importUtil"
    /\ \E imported \in BOOLEAN :
          IF imported
          THEN /\ pc' = "which"
               /\ whichIndex' = 1
          ELSE /\ pc' = "bundled"
               /\ whichIndex' = whichIndex
    /\ UNCHANGED <<bookIsFiction, isProd, browserConfig, browser, error, launches>>
    /\ UNCHANGED captureVars
    /\ UNCHANGED requestVars
    /\ UNCHANGED analyzeVars

\* const { stdout } = await execAsync(`which ${browser}`): a non-blank answer is
\* the path; a blank answer or a failed command moves on to the next browser,
\* and after the last one getChromePath throws.
Which ==
    /\ pc = "which"
    /\ \E answer \in {"path", "blank", "failed"} :
          IF answer = "path"
          THEN /\ browserConfig' = "executablePath"
               /\ whichIndex' = 0
               /\ pc' = "launch"
          ELSE IF whichIndex < NumWhichBrowsers
          THEN /\ browserConfig' = browserConfig
               /\ whichIndex' = whichIndex + 1
               /\ pc' = "which"
          ELSE /\ browserConfig' = browserConfig
               /\ whichIndex' = 0
               /\ pc' = "bundled"
    /\ UNCHANGED <<bookIsFiction, isProd, browser, error, launches>>
    /\ UNCHANGED captureVars
    /\ UNCHANGED requestVars
    /\ UNCHANGED analyzeVars

\* const puppeteerFull = await import('puppeteer'); a failure is caught and the
\* last-resort options are used.
BundledImport ==
    /\ pc = "bundled"
    /\ \E imported \in BOOLEAN :
          IF imported
          THEN /\ browserConfig' = browserConfig
               /\ pc' = "bundledLaunch"
          ELSE /\ browserConfig' = "default"
               /\ pc' = "launch"
    /\ UNCHANGED <<bookIsFiction, isProd, browser, error, launches, whichIndex>>
    /\ UNCHANGED captureVars
    /\ UNCHANGED requestVars
    /\ UNCHANGED analyzeVars

\* A bundled launch whose browser is not kept: the general launch runs again.
BundledLaunchForgetsBrowser ==
    /\ pc = "bundledLaunch"
    /\ \E ok \in BOOLEAN :
          IF ok
          THEN /\ launches' = launches + 1
               /\ browserConfig' = browserConfig
          ELSE /\ launches' = launches
               /\ browserConfig' = "default"
    /\ pc' = "launch"
    /\ UNCHANGED <<bookIsFiction, isProd, browser, error, whichIndex>>
    /\ UNCHANGED captureVars
    /\ UNCHANGED requestVars
    /\ UNCHANGED analyzeVars

\* browser = await puppeteerFull.default.launch(...), caught on failure.
BundledLaunch ==
    /\ pc = "bundledLaunch"
    /\ \E ok \in BOOLEAN :
          IF ok
          THEN /\ browser' = "open"
               /\ launches' = launches + 1
               /\ browserConfig' = browserConfig
          ELSE /\ browser' = browser
               /\ launches' = launches
               /\ browserConfig' = "default"
    /\ pc' = "launch"
    /\ UNCHANGED <<bookIsFiction, isProd, error, whichIndex>>
    /\ UNCHANGED captureVars
    /\ UNCHANGED requestVars
    /\ UNCHANGED analyzeVars

\* if (!browser) { browser = await puppeteer.launch(browserConfig) }
Launch ==
    /\ pc = "launch"
    /\ IF browser = "undefined"
       THEN \E ok \in BOOLEAN :
               IF ok
               THEN /\ browser' = "open"
                    /\ launches' = launches + 1
                    /\ error' = error
                    /\ pc' = "newPage"
               ELSE /\ browser' = browser
                    /\ launches' = launches
                    /\ error' = "launch"
                    /\ pc' = "catch"
       ELSE /\ browser' = browser
            /\ launches' = launches
            /\ error' = error
            /\ pc' = "newPage"
    /\ UNCHANGED <<bookIsFiction, isProd, browserConfig, buttonHandle, i,
                   foundfirst, base64Screenshot, screenshots, screenshotsInner,
                   viewerPage, result, outcome, closeCalls, screenshotCalls,
                   classifyCalls, clickAttempts, lastAccept, clicksAfterAccept,
                   fictionAdvance, endOfPreview, nextControl>>
    /\ UNCHANGED <<classifierFailed, shotIteration, classifiedIteration>>
    /\ UNCHANGED whichIndex
    /\ UNCHANGED requestVars
    /\ UNCHANGED analyzeVars

\* const screenshots = []; const page = await browser.newPage(); let foundfirst = false
NewPage ==
    /\ pc = "newPage"
    /\ screenshotsInner' = <<>>
    /\ foundfirst' = FALSE
    /\ \E ok \in BOOLEAN :
          IF ok
          THEN /\ pc' = "setViewport"
               /\ error' = error
          ELSE /\ pc' = "catch"
               /\ error' = "newPage"
    /\ UNCHANGED <<bookIsFiction, isProd, browserConfig, browser, buttonHandle,
                   i, base64Screenshot, screenshots, viewerPage, result, outcome,
                   launches, closeCalls, screenshotCalls, classifyCalls,
                   clickAttempts, lastAccept, clicksAfterAccept, fictionAdvance,
                   endOfPreview, nextControl>>
    /\ UNCHANGED <<classifierFailed, shotIteration, classifiedIteration>>
    /\ UNCHANGED whichIndex
    /\ UNCHANGED requestVars
    /\ UNCHANGED analyzeVars

\* await page.setViewport({ width: 1280, height: 900 })
SetViewport ==
    /\ pc = "setViewport"
    /\ \E ok \in BOOLEAN :
          IF ok
          THEN /\ pc' = "setUserAgent"
               /\ error' = error
          ELSE /\ pc' = "catch"
               /\ error' = "setViewport"
    /\ UNCHANGED <<bookIsFiction, isProd, browserConfig, browser, launches,
                   whichIndex>>
    /\ UNCHANGED captureVars
    /\ UNCHANGED requestVars
    /\ UNCHANGED analyzeVars

\* await page.setUserAgent('Mozilla/5.0 ...')
SetUserAgent ==
    /\ pc = "setUserAgent"
    /\ \E ok \in BOOLEAN :
          IF ok
          THEN /\ pc' = "goto"
               /\ error' = error
          ELSE /\ pc' = "catch"
               /\ error' = "setUserAgent"
    /\ UNCHANGED <<bookIsFiction, isProd, browserConfig, browser, launches,
                   whichIndex>>
    /\ UNCHANGED captureVars
    /\ UNCHANGED requestVars
    /\ UNCHANGED analyzeVars

\* await page.goto(url, { waitUntil: 'networkidle2', timeout: 30000 })
Goto ==
    /\ pc = "goto"
    /\ \E ok \in BOOLEAN :
          IF ok
          THEN /\ pc' = "waitButton"
               /\ error' = error
          ELSE /\ pc' = "catch"
               /\ error' = "goto"
    /\ UNCHANGED <<bookIsFiction, isProd, browserConfig, browser, buttonHandle,
                   i, foundfirst, base64Screenshot, screenshots, screenshotsInner,
                   viewerPage, result, outcome, launches, closeCalls,
                   screenshotCalls, classifyCalls, clickAttempts, lastAccept,
                   clicksAfterAccept, fictionAdvance, endOfPreview,
                   nextControl>>
    /\ UNCHANGED <<classifierFailed, shotIteration, classifiedIteration>>
    /\ UNCHANGED whichIndex
    /\ UNCHANGED requestVars
    /\ UNCHANGED analyzeVars

\* buttonHandle = await page.waitForFunction(..., { timeout: 60000 }): resolves
\* with a handle once the next-page control is in the document, rejects when
\* the control has not appeared within the timeout.
WaitForButton ==
    /\ pc = "waitButton"
    /\ \E controlShown \in BOOLEAN :
          IF controlShown
          THEN /\ buttonHandle' = TRUE
               /\ nextControl' = "present"
               /\ i' = 1
               /\ pc' = "loop"
               /\ error' = error
          ELSE /\ buttonHandle' = buttonHandle
               /\ nextControl' = "absent"
               /\ i' = i
               /\ pc' = "catch"
               /\ error' = "waitForFunction"
    /\ UNCHANGED <<bookIsFiction, isProd, browserConfig, browser, foundfirst,
                   base64Screenshot, screenshots, screenshotsInner, viewerPage,
                   result, outcome, launches, closeCalls, screenshotCalls,
                   classifyCalls, clickAttempts, lastAccept, clicksAfterAccept,
                   fictionAdvance, endOfPreview>>
    /\ UNCHANGED <<classifierFailed, shotIteration, classifiedIteration>>
    /\ UNCHANGED whichIndex
    /\ UNCHANGED requestVars
    /\ UNCHANGED analyzeVars

\* A loop head that admits one attempt too many.
LoopTestOffByOne ==
    /\ pc = "loop"
    /\ pc' = IF i <= MaxAttempts + 1 THEN "screenshot" ELSE "return"
    /\ UNCHANGED <<bookIsFiction, isProd, browserConfig, browser, buttonHandle,
                   i, foundfirst, base64Screenshot, screenshots, screenshotsInner,
                   viewerPage, result, outcome, error, launches, closeCalls,
                   screenshotCalls, classifyCalls, clickAttempts, lastAccept,
                   clicksAfterAccept, fictionAdvance, endOfPreview,
                   nextControl>>
    /\ UNCHANGED <<classifierFailed, shotIteration, classifiedIteration>>
    /\ UNCHANGED whichIndex
    /\ UNCHANGED requestVars
    /\ UNCHANGED analyzeVars

\* A loop that takes its screenshot in the first attempt only.
LoopTestReusesScreenshot ==
    /\ pc = "loop"
    /\ pc' = IF i <= MaxAttempts
             THEN (IF i = 1 THEN "screenshot" ELSE "classify")
             ELSE "return"
    /\ UNCHANGED <<bookIsFiction, isProd, browserConfig, browser, buttonHandle,
                   i, foundfirst, base64Screenshot, screenshots, screenshotsInner,
                   viewerPage, result, outcome, error, launches, closeCalls,
                   screenshotCalls, classifyCalls, clickAttempts, lastAccept,
                   clicksAfterAccept, fictionAdvance, endOfPreview,
                   nextControl>>
    /\ UNCHANGED <<classifierFailed, shotIteration, classifiedIteration>>
    /\ UNCHANGED whichIndex
    /\ UNCHANGED requestVars
    /\ UNCHANGED analyzeVars

\* for (let i = 1; i <= 15; i++): the loop head.
LoopTest ==
    /\ pc = "loop"
    /\ pc' = IF i <= MaxAttempts THEN "screenshot" ELSE "return"
    /\ UNCHANGED <<bookIsFiction, isProd, browserConfig, browser, buttonHandle,
                   i, foundfirst, base64Screenshot, screenshots, screenshotsInner,
                   viewerPage, result, outcome, error, launches, closeCalls,
                   screenshotCalls, classifyCalls, clickAttempts, lastAccept,
                   clicksAfterAccept, fictionAdvance, endOfPreview,
                   nextControl>>
    /\ UNCHANGED <<classifierFailed, shotIteration, classifiedIteration>>
    /\ UNCHANGED whichIndex
    /\ UNCHANGED requestVars
    /\ UNCHANGED analyzeVars

\* screenshotBuffer = await page.screenshot(...); base64Screenshot = its base64 text.
\* The image shows the page the viewer is on; an empty buffer gives "".
TakeScreenshot ==
    /\ pc = "screenshot"
    /\ screenshotCalls' = screenshotCalls + 1
    /\ \E shot \in {"image", "empty", "rejected"} :
          CASE shot = "image" ->
                 /\ base64Screenshot' = <<viewerPage>>
                 /\ shotIteration' = i
                 /\ pc' = "classify"
                 /\ error' = error
            [] shot = "empty" ->
                 /\ base64Screenshot' = <<>>
                 /\ shotIteration' = i
                 /\ pc' = "classify"
                 /\ error' = error
            [] shot = "rejected" ->
                 /\ base64Screenshot' = base64Screenshot
                 /\ shotIteration' = shotIteration
                 /\ pc' = "catch"
                 /\ error' = "screenshot"
    /\ UNCHANGED <<bookIsFiction, isProd, browserConfig, browser, buttonHandle,
                   i, foundfirst, screenshots, screenshotsInner, viewerPage,
                   result, outcome, launches, closeCalls, classifyCalls,
                   clickAttempts, lastAccept, clicksAfterAccept, fictionAdvance,
                   endOfPreview, nextControl>>
    /\ UNCHANGED <<classifierFailed, classifiedIteration>>
    /\ UNCHANGED whichIndex
    /\ UNCHANGED requestVars
    /\ UNCHANGED analyzeVars

\* A classification whose failed model call is raised into the loop.
ClassifyRethrows ==
    /\ pc = "classify"
    /\ classifyCalls' = classifyCalls + 1
    /\ classifiedIteration' = shotIteration
    /\ \E reply \in ClassifierReplies :
          LET ff == NullishCoalesce(isFirstPage(reply), FALSE)
              nonEmpty == Len(base64Screenshot) > 0
          IN  /\ foundfirst' = ff
              /\ classifierFailed' = (reply = Rejected)
              /\ lastAccept' = IF ff THEN (IF nonEmpty THEN "image" ELSE "empty")
                                     ELSE lastAccept
              /\ clicksAfterAccept' = IF ff THEN 0 ELSE clicksAfterAccept
              /\ pc' = IF reply = Rejected THEN "catch"
                       ELSE IF ~ff THEN "clickNext"
                       ELSE IF nonEmpty THEN "found" ELSE "loop"
              /\ error' = IF reply = Rejected THEN "classify" ELSE error
              /\ i' = IF ff /\ ~nonEmpty THEN i + 1 ELSE i
    /\ UNCHANGED <<bookIsFiction, isProd, browserConfig, browser, buttonHandle,
                   base64Screenshot, screenshots, screenshotsInner, viewerPage,
                   result, outcome, launches, closeCalls, screenshotCalls,
                   clickAttempts, fictionAdvance, endOfPreview, nextControl>>
    /\ UNCHANGED shotIteration
    /\ UNCHANGED whichIndex
    /\ UNCHANGED requestVars
    /\ UNCHANGED analyzeVars

\* foundfirst = await isFirstPage(base64Screenshot) ?? false, and the choice of
\* branch: "not yet", "found", or "empty or invalid" (which ends the iteration).
Classify ==
    /\ pc = "classify"
    /\ classifyCalls' = classifyCalls + 1
    /\ classifiedIteration' = shotIteration
    /\ \E reply \in ClassifierReplies :
          LET ff == NullishCoalesce(isFirstPage(reply), FALSE)
              nonEmpty == Len(base64Screenshot) > 0
          IN  /\ foundfirst' = ff
              /\ classifierFailed' = (reply = Rejected)
              /\ lastAccept' = IF ff THEN (IF nonEmpty THEN "image" ELSE "empty")
                                     ELSE lastAccept
              /\ clicksAfterAccept' = IF ff THEN 0 ELSE clicksAfterAccept
              /\ pc' = IF ~ff THEN "clickNext"
                       ELSE IF nonEmpty THEN "found" ELSE "loop"
              /\ i' = IF ff /\ ~nonEmpty THEN i + 1 ELSE i
    /\ UNCHANGED <<bookIsFiction, isProd, browserConfig, browser, buttonHandle,
                   base64Screenshot, screenshots, screenshotsInner, viewerPage,
                   result, outcome, error, launches, closeCalls, screenshotCalls,
                   clickAttempts, fictionAdvance, endOfPreview, nextControl>>
    /\ UNCHANGED shotIteration
    /\ UNCHANGED whichIndex
    /\ UNCHANGED requestVars
    /\ UNCHANGED analyzeVars

\* if (!foundfirst) { try { click } catch { log } }: a rejected click is logged
\* and the iteration ends like any other.
ClickNext ==
    /\ pc = "clickNext"
    /\ clickAttempts' = clickAttempts + 1
    /\ clicksAfterAccept' = IF lastAccept # "none" THEN clicksAfterAccept + 1
                            ELSE clicksAfterAccept
    /\ \E clicked \in BOOLEAN :
          IF clicked
          THEN /\ viewerPage' = viewerPage + 1
               /\ endOfPreview' = endOfPreview
          ELSE /\ viewerPage' = viewerPage
               /\ endOfPreview' = TRUE
    /\ i' = i + 1
    /\ classifierFailed' = FALSE
    /\ pc' = "loop"
    /\ UNCHANGED <<bookIsFiction, isProd, browserConfig, browser, buttonHandle,
                   foundfirst, base64Screenshot, screenshots, screenshotsInner,
                   result, outcome, error, launches, closeCalls, screenshotCalls,
                   classifyCalls, lastAccept, fictionAdvance, nextControl>>
    /\ UNCHANGED <<shotIteration, classifiedIteration>>
    /\ UNCHANGED whichIndex
    /\ UNCHANGED requestVars
    /\ UNCHANGED analyzeVars

\* A found branch that clicks whatever the kind of book.
FoundAlwaysClicks ==
    /\ pc = "found"
    /\ clickAttempts' = clickAttempts + 1
    /\ clicksAfterAccept' = clicksAfterAccept + 1
    /\ \E clicked \in BOOLEAN :
          IF clicked
          THEN /\ viewerPage' = viewerPage + 1
               /\ fictionAdvance' = "ok"
          ELSE /\ viewerPage' = viewerPage
               /\ fictionAdvance' = "failed"
    /\ pc' = "push"
    /\ UNCHANGED <<bookIsFiction, isProd, browserConfig, browser, buttonHandle,
                   i, foundfirst, base64Screenshot, screenshots, screenshotsInner,
                   result, outcome, error, launches, closeCalls, screenshotCalls,
                   classifyCalls, lastAccept, endOfPreview, nextControl>>
    /\ UNCHANGED <<classifierFailed, shotIteration, classifiedIteration>>
    /\ UNCHANGED whichIndex
    /\ UNCHANGED requestVars
    /\ UNCHANGED analyzeVars

\* else if (base64Screenshot && base64Screenshot.length > 0): for fiction one
\* more click, its failure logged and ignored.
Found ==
    /\ pc = "found"
    /\ IF bookIsFiction
       THEN /\ clickAttempts' = clickAttempts + 1
            /\ clicksAfterAccept' = clicksAfterAccept + 1
            /\ \E clicked \in BOOLEAN :
                  IF clicked
                  THEN /\ viewerPage' = viewerPage + 1
                       /\ fictionAdvance' = "ok"
                  ELSE /\ viewerPage' = viewerPage
                       /\ fictionAdvance' = "failed"
       ELSE /\ clickAttempts' = clickAttempts
            /\ clicksAfterAccept' = clicksAfterAccept
            /\ viewerPage' = viewerPage
            /\ fictionAdvance' = fictionAdvance
    /\ pc' = "push"
    /\ UNCHANGED <<bookIsFiction, isProd, browserConfig, browser, buttonHandle,
                   i, foundfirst, base64Screenshot, screenshots, screenshotsInner,
                   result, outcome, error, launches, closeCalls, screenshotCalls,
                   classifyCalls, lastAccept, endOfPreview, nextControl>>
    /\ UNCHANGED <<classifierFailed, shotIteration, classifiedIteration>>
    /\ UNCHANGED whichIndex
    /\ UNCHANGED requestVars
    /\ UNCHANGED analyzeVars

\* screenshots.push({ index: i, base64Imagee: base64Screenshot }): the image
\* pushed is the one taken before the classification.
PushScreenshot ==
    /\ pc = "push"
    /\ screenshotsInner' = Append(screenshotsInner,
                                  [index |-> i, base64Imagee |-> base64Screenshot])
    /\ pc' = "debugWrite"
    /\ UNCHANGED <<bookIsFiction, isProd, browserConfig, browser, buttonHandle,
                   i, foundfirst, base64Screenshot, screenshots, viewerPage,
                   result, outcome, error, launches, closeCalls, screenshotCalls,
                   classifyCalls, clickAttempts, lastAccept, clicksAfterAccept,
                   fictionAdvance, endOfPreview, nextControl>>
    /\ UNCHANGED <<classifierFailed, shotIteration, classifiedIteration>>
    /\ UNCHANGED whichIndex
    /\ UNCHANGED requestVars
    /\ UNCHANGED analyzeVars

\* A found branch without its break: the loop goes on to the next attempt.
DebugWriteWithoutBreak ==
    /\ pc = "debugWrite"
    /\ \E written \in BOOLEAN :
          IF written
          THEN /\ pc' = "loop"
               /\ i' = i + 1
               /\ error' = error
          ELSE /\ pc' = "catch"
               /\ i' = i
               /\ error' = "debugWrite"
    /\ UNCHANGED <<bookIsFiction, isProd, browserConfig, browser, buttonHandle,
                   foundfirst, base64Screenshot, screenshots, screenshotsInner,
                   viewerPage, result, outcome, launches, closeCalls,
                   screenshotCalls, classifyCalls, clickAttempts, lastAccept,
                   clicksAfterAccept, fictionAdvance, endOfPreview,
                   nextControl>>
    /\ UNCHANGED <<classifierFailed, shotIteration, classifiedIteration>>
    /\ UNCHANGED whichIndex
    /\ UNCHANGED requestVars
    /\ UNCHANGED analyzeVars

\* fs.existsSync / fs.mkdirSync / fs.writeFileSync of the debug copy, then break.
DebugWrite ==
    /\ pc = "debugWrite"
    /\ \E written \in BOOLEAN :
          IF written
          THEN /\ pc' = "return"
               /\ error' = error
          ELSE /\ pc' = "catch"
               /\ error' = "debugWrite"
    /\ UNCHANGED <<bookIsFiction, isProd, browserConfig, browser, buttonHandle,
                   i, foundfirst, base64Screenshot, screenshots, screenshotsInner,
                   viewerPage, result, outcome, launches, closeCalls,
                   screenshotCalls, classifyCalls, clickAttempts, lastAccept,
                   clicksAfterAccept, fictionAdvance, endOfPreview,
                   nextControl>>
    /\ UNCHANGED <<classifierFailed, shotIteration, classifiedIteration>>
    /\ UNCHANGED whichIndex
    /\ UNCHANGED requestVars
    /\ UNCHANGED analyzeVars

\* return { success: screenshots.length > 0, screenshots, message } in the try
\* block, where screenshots is the array of line 573.
ReturnNormal ==
    /\ pc = "return"
    /\ result' = [success |-> Len(screenshotsInner) > 0,
                  screenshots |-> screenshotsInner,
                  message |-> "Successfully captured"]
    /\ outcome' = "returned"
    /\ pc' = "finally"
    /\ UNCHANGED <<bookIsFiction, isProd, browserConfig, browser, buttonHandle,
                   i, foundfirst, base64Screenshot, screenshots, screenshotsInner,
                   viewerPage, error, launches, closeCalls, screenshotCalls,
                   classifyCalls, clickAttempts, lastAccept, clicksAfterAccept,
                   fictionAdvance, endOfPreview, nextControl>>
    /\ UNCHANGED <<classifierFailed, shotIteration, classifiedIteration>>
    /\ UNCHANGED whichIndex
    /\ UNCHANGED requestVars
    /\ UNCHANGED analyzeVars

\* A catch block that returns the array the loop fills.
CatchReturnsCaptured ==
    /\ pc = "catch"
    /\ result' = [success |-> FALSE,
                  screenshots |-> screenshotsInner,
                  message |-> "Error extracting screenshots"]
    /\ outcome' = "returned"
    /\ pc' = "finally"
    /\ UNCHANGED <<bookIsFiction, isProd, browserConfig, browser, buttonHandle,
                   i, foundfirst, base64Screenshot, screenshots, screenshotsInner,
                   viewerPage, error, launches, closeCalls, screenshotCalls,
                   classifyCalls, clickAttempts, lastAccept, clicksAfterAccept,
                   fictionAdvance, endOfPreview, nextControl>>
    /\ UNCHANGED <<classifierFailed, shotIteration, classifiedIteration>>
    /\ UNCHANGED whichIndex
    /\ UNCHANGED requestVars
    /\ UNCHANGED analyzeVars

\* catch (error) { return { success: false, screenshots, message } }, where
\* screenshots is the array of line 507: the catch block is outside the scope
\* of the array declared in the try block.
Catch ==
    /\ pc = "catch"
    /\ result' = [success |-> FALSE,
                  screenshots |-> screenshots,
                  message |-> "Error extracting screenshots"]
    /\ outcome' = "returned"
    /\ pc' = "finally"
    /\ UNCHANGED <<bookIsFiction, isProd, browserConfig, browser, buttonHandle,
                   i, foundfirst, base64Screenshot, screenshots, screenshotsInner,
                   viewerPage, error, launches, closeCalls, screenshotCalls,
                   classifyCalls, clickAttempts, lastAccept, clicksAfterAccept,
                   fictionAdvance, endOfPreview, nextControl>>
    /\ UNCHANGED <<classifierFailed, shotIteration, classifiedIteration>>
    /\ UNCHANGED whichIndex
    /\ UNCHANGED requestVars
    /\ UNCHANGED analyzeVars

\* A close that is reached on the success path only.
FinallyClosesOnSuccessOnly ==
    /\ pc = "finally"
    /\ IF browser = "open" /\ error = "none"
       THEN /\ browser' = "closed"
            /\ closeCalls' = closeCalls + 1
       ELSE /\ browser' = browser
            /\ closeCalls' = closeCalls
    /\ pc' = "done"
    /\ UNCHANGED <<bookIsFiction, isProd, browserConfig, buttonHandle, i,
                   foundfirst, base64Screenshot, screenshots, screenshotsInner,
                   viewerPage, result, outcome, error, launches, screenshotCalls,
                   classifyCalls, clickAttempts, lastAccept, clicksAfterAccept,
                   fictionAdvance, endOfPreview, nextControl>>
    /\ UNCHANGED <<classifierFailed, shotIteration, classifiedIteration>>
    /\ UNCHANGED whichIndex
    /\ UNCHANGED requestVars
    /\ UNCHANGED analyzeVars

\* finally { if (browser) { await browser.close() } }: the close is awaited
\* outside every try block, so its rejection replaces the value being returned
\* and the function raises.  browser is "closed" once close() has been called.
Finally ==
    /\ pc = "finally"
    /\ IF browser = "open"
       THEN /\ browser' = "closed"
            /\ closeCalls' = closeCalls + 1
            /\ \E closed \in BOOLEAN :
                  outcome' = IF closed THEN outcome ELSE "threw"
       ELSE /\ browser' = browser
            /\ closeCalls' = closeCalls
            /\ outcome' = outcome
    /\ pc' = "done"
    /\ UNCHANGED <<bookIsFiction, isProd, browserConfig, buttonHandle, i,
                   foundfirst, base64Screenshot, screenshots, screenshotsInner,
                   viewerPage, result, error, launches, screenshotCalls,
                   classifyCalls, clickAttempts, lastAccept, clicksAfterAccept,
                   fictionAdvance, endOfPreview, nextControl>>
    /\ UNCHANGED <<classifierFailed, shotIteration, classifiedIteration>>
    /\ UNCHANGED whichIndex
    /\ UNCHANGED requestVars
    /\ UNCHANGED analyzeVars

Next ==
    \/ ProdImport
    \/ ProdExecutablePath
    \/ DevConfig
    \/ ImportChildProcess
    \/ ImportUtil
    \/ Which
    \/ BundledImport
    \/ BundledLaunch
    \/ Launch
    \/ NewPage
    \/ SetViewport
    \/ SetUserAgent
    \/ Goto
    \/ WaitForButton
    \/ LoopTest
    \/ TakeScreenshot
    \/ Classify
    \/ ClickNext
    \/ Found
    \/ PushScreenshot
    \/ DebugWrite
    \/ ReturnNormal
    \/ Catch
    \/ Finally

Spec == Init /\ [][Next]_vars

\* Every awaited call settles and the function runs on: a step that can be
\* taken is eventually taken.
FairSpec == Spec /\ WF_vars(Next)

\* The run has delivered its result to the caller.
Returned == pc = "done"

(***************************************************************************)
(* processBookCover: the steps both versions share (API key check, cover   *)
(* validation, identification, fetchBookInfo).                             *)
(***************************************************************************)
locatorVars == <<pc, bookIsFiction, isProd, browserConfig, browser, buttonHandle,
                 i, foundfirst, base64Screenshot, screenshots, screenshotsInner,
                 viewerPage, result, outcome, error, launches, closeCalls,
                 screenshotCalls, classifyCalls, clickAttempts, lastAccept,
                 clicksAfterAccept, fictionAdvance, endOfPreview, nextControl,
                 classifierFailed, shotIteration, classifiedIteration,
                 whichIndex>>

\* No run of extractBookScreenshots has started.
LocatorIdle ==
    /\ pc = "idle"
    /\ bookIsFiction = FALSE
    /\ isProd = FALSE
    /\ browserConfig = "empty"
    /\ browser = "undefined"
    /\ buttonHandle = FALSE
    /\ i = 0
    /\ foundfirst = FALSE
    /\ base64Screenshot = <<>>
    /\ screenshots = <<>>
    /\ screenshotsInner = <<>>
    /\ viewerPage = 1
    /\ result = NoResult
    /\ outcome = "pending"
    /\ error = "none"
    /\ launches = 0
    /\ closeCalls = 0
    /\ screenshotCalls = 0
    /\ classifyCalls = 0
    /\ clickAttempts = 0
    /\ lastAccept = "none"
    /\ clicksAfterAccept = 0
    /\ fictionAdvance = "none"
    /\ endOfPreview = FALSE
    /\ nextControl = "unknown"
    /\ classifierFailed = FALSE
    /\ shotIteration = 0
    /\ classifiedIteration = 0
    /\ whichIndex = 0

\* A request to the version of processBookCover the server imports (the text
\* version) starts at its entry or at the /api/process handler that calls it.
ProcessInit ==
    /\ LocatorIdle
    /\ AnalyzeIdle
    /\ isValidBookCover = "unknown"
    /\ response = NoResponse
    /\ variant = "text"
    /\ apiKey \in BOOLEAN
    /\ rpc \in {"received", "start"}
    /\ bookDetails = NoDetails
    /\ bookInfo = NoInfo
    /\ calls = <<>>
    /\ previewText = EmptyText
    /\ sourceInfo = ""
    /\ yields = [m \in CascadeMethods |-> "untried"]
    /\ extractedText = EmptyText
    /\ out = NoOut
    /\ matched = NoVolume
    /\ viewability = "unknown"
    /\ archive = NoArchive

\* new Error(what)
Threw(what) == [kind |-> "threw", error |-> what, detail |-> ""]

\* new Error(`${what}: ${error instanceof Error ? error.message : "Unknown error"}`)
ThrewWith(what, detail) == [kind |-> "threw", error |-> what, detail |-> detail]

\* The message of a thrown error.
ErrorMessage(e) ==
    Chars(e.error) \o (IF e.detail = "" THEN <<>> ELSE <<":", " ">> \o Chars(e.detail))

\* error.message of a rejected model call, "Unknown error" for a rejection that
\* is not an Error.
RejectionMessages ==
    {"Unknown error", "Request timed out", "The image is not a valid book cover"}

\* identifyBook's own failures: no JSON object in the reply, and JSON.parse.
ParseFailures ==
    {"Could not extract book information from the image",
     "Unexpected end of JSON input"}

\* An external call and whether it resolved.
Call(name, ok) == [call |-> name, ok |-> ok]

Called(name) == \E k \in DOMAIN calls : calls[k].call = name

NotACoverResult == [kind |-> "result", isError |-> TRUE, text |-> [kind |-> "notACover"]]

\* A credential check that is made only after the first model call has failed.
CheckApiKeyAfterModelCall ==
    /\ rpc = "start"
    /\ IF ~apiKey
       THEN /\ calls' = Append(calls, Call("validateBookCover", FALSE))
            /\ out' = Threw("OpenAI API key is missing")
            /\ rpc' = "done"
       ELSE /\ calls' = calls
            /\ out' = out
            /\ rpc' = "validate"
    /\ UNCHANGED <<variant, apiKey, bookDetails, bookInfo, previewText,
                   sourceInfo, yields, extractedText>>
    /\ UNCHANGED locatorVars
    /\ UNCHANGED <<isValidBookCover, response>>
    /\ UNCHANGED analyzeVars
    /\ UNCHANGED <<matched, viewability, archive>>

\* if (!process.env.OPENAI_API_KEY) throw new Error("OpenAI API key is missing...")
CheckApiKey ==
    /\ rpc = "start"
    /\ IF ~apiKey
       THEN /\ out' = Threw("OpenAI API key is missing")
            /\ rpc' = "done"
       ELSE /\ out' = out
            /\ rpc' = "validate"
    /\ UNCHANGED <<variant, apiKey, bookDetails, bookInfo, calls, previewText,
                   sourceInfo, yields, extractedText>>
    /\ UNCHANGED locatorVars
    /\ UNCHANGED <<isValidBookCover, response>>
    /\ UNCHANGED analyzeVars
    /\ UNCHANGED <<matched, viewability, archive>>

\* validateBookCover: text.toLowerCase().includes("yes"); a rejected model call
\* is rethrown as "Failed to validate book cover: " followed by its message.
validateBookCover(reply) ==
    IF reply = Rejected
    THEN [threw |-> TRUE, value |-> FALSE]
    ELSE [threw |-> FALSE, value |-> includes(toLowerCase(reply), YesToken)]

\* A validation that raises for an image that is not a cover.
ValidateCoverRaisesOnNo ==
    /\ rpc = "validate"
    /\ \E reply \in ClassifierReplies :
          LET v == validateBookCover(reply)
          IN  /\ calls' = Append(calls, Call("validateBookCover", ~v.threw))
              /\ isValidBookCover' = IF v.threw THEN isValidBookCover ELSE Bool(v.value)
              /\ IF v.threw
                 THEN /\ \E message \in RejectionMessages :
                            out' = ThrewWith("Failed to validate book cover", message)
                      /\ rpc' = "done"
                 ELSE IF v.value
                 THEN /\ out' = out
                      /\ rpc' = "identify"
                 ELSE /\ out' = Threw("The image is not a valid book cover")
                      /\ rpc' = "done"
    /\ UNCHANGED <<variant, apiKey, bookDetails, bookInfo, previewText,
                   sourceInfo, yields, extractedText>>
    /\ UNCHANGED locatorVars
    /\ UNCHANGED response
    /\ UNCHANGED analyzeVars
    /\ UNCHANGED <<matched, viewability, archive>>

\* Step 1 of processBookCover: isValidBookCover = await validateBookCover(...);
\* the catch block of processBookCover rethrows.
ValidateCover ==
    /\ rpc = "validate"
    /\ \E reply \in ClassifierReplies :
          LET v == validateBookCover(reply)
          IN  /\ calls' = Append(calls, Call("validateBookCover", ~v.threw))
              /\ isValidBookCover' = IF v.threw THEN isValidBookCover ELSE Bool(v.value)
              /\ IF v.threw
                 THEN /\ \E message \in RejectionMessages :
                            out' = ThrewWith("Failed to validate book cover", message)
                      /\ rpc' = "done"
                 ELSE IF v.value
                 THEN /\ out' = out
                      /\ rpc' = "identify"
                 ELSE /\ out' = NotACoverResult
                      /\ rpc' = "done"
    /\ UNCHANGED <<variant, apiKey, bookDetails, bookInfo, previewText,
                   sourceInfo, yields, extractedText>>
    /\ UNCHANGED locatorVars
    /\ UNCHANGED response
    /\ UNCHANGED analyzeVars
    /\ UNCHANGED <<matched, viewability, archive>>

\* Step 2: bookDetails = await identifyBook(...).  A rejected model call, a reply
\* without a JSON object and a JSON.parse failure are all rethrown as
\* "Failed to identify the book from the cover: " followed by their message.
IdentifyBook ==
    /\ rpc = "identify"
    /\ \E replied \in BOOLEAN, parsed \in BOOLEAN :
          /\ calls' = Append(calls, Call("identifyBook", replied))
          /\ IF replied /\ parsed
             THEN \E guess \in GuessesOf(variant) :
                  /\ bookDetails' = guess
                  /\ out' = out
                  /\ rpc' = "fetchInfo"
             ELSE /\ bookDetails' = bookDetails
                  /\ \E message \in (IF replied THEN ParseFailures ELSE RejectionMessages) :
                        out' = ThrewWith("Failed to identify the book from the cover",
                                         message)
                  /\ rpc' = "done"
    /\ UNCHANGED <<variant, apiKey, bookInfo, previewText, sourceInfo, yields,
                   extractedText>>
    /\ UNCHANGED locatorVars
    /\ UNCHANGED <<isValidBookCover, response>>
    /\ UNCHANGED analyzeVars
    /\ UNCHANGED <<matched, viewability, archive>>

\* The identity fetchBookByISBN builds from the first item of the answer.
ISBNInfo(v, isbn) ==
    [title |-> v.title,
     author |-> IF v.author = Undefined THEN "Unknown" ELSE v.author,
     isFiction |-> Bool(isFictionCategory(v.categories)),
     isbn |-> isbn, description |-> OrElse(v.description, Null),
     previewLink |-> OrElse(v.previewLink, Null), id |-> v.id]

\* The object searchBookAPI returns: it has no categories field.
SearchRecord(v) ==
    [title |-> v.title,
     author |-> IF v.author = Undefined THEN "Unknown" ELSE v.author,
     isFiction |-> Bool(isFictionCategory(v.categories)),
     isbn |-> v.identifier, description |-> OrElse(v.description, Null),
     previewLink |-> OrElse(v.previewLink, Null), id |-> v.id]

\* bookInfo.categories || []: undefined for every object searchBookAPI returns.
SearchCategories == <<>>

\* The identity of the search path: bookInfo.isFiction =
\* improvedFictionDetection(bookInfo.categories || [], bookInfo.description || "",
\* bookInfo.title || "").
SearchInfo(v) ==
    [SearchRecord(v) EXCEPT
        !.isFiction = Bool(improvedFictionDetection(SearchCategories,
                                                    OrElse(SearchRecord(v).description, ""),
                                                    OrElse(SearchRecord(v).title, "")))]

\* The catch block of fetchBookInfo: the guessed fields with defaults.
DefaultInfo(d) ==
    [title |-> OrElse(d.title, "Unknown Title"),
     author |-> OrElse(d.author, "Unknown Author"),
     isFiction |-> IF d.isFiction # Undefined THEN d.isFiction ELSE "true",
     isbn |-> OrElse(d.isbn, Null),
     description |-> Null,
     previewLink |-> Null,
     id |-> Null]

\* A resolver that searches by title first and keeps the ISBN lookup for later.
FetchBookByISBNSearchesFirst ==
    /\ rpc = "fetchInfo"
    /\ IF Truthy(bookDetails.title)
       THEN \E found \in BOOLEAN :
               /\ calls' = Append(calls, Call("search", found))
               /\ IF found
                  THEN /\ \E v \in VolumesOf(variant) :
                             /\ bookInfo' = SearchInfo(v)
                             /\ matched' = v
                       /\ rpc' = "resolved"
                  ELSE /\ bookInfo' = bookInfo
                       /\ matched' = matched
                       /\ rpc' = "search"
       ELSE /\ calls' = calls
            /\ bookInfo' = bookInfo
            /\ matched' = matched
            /\ rpc' = "search"
    /\ UNCHANGED <<variant, apiKey, bookDetails, previewText, sourceInfo, yields,
                   extractedText, out>>
    /\ UNCHANGED locatorVars
    /\ UNCHANGED <<isValidBookCover, response>>
    /\ UNCHANGED analyzeVars
    /\ UNCHANGED <<viewability, archive>>

\* A resolver whose failed ISBN lookup ends the resolution with the defaults.
FetchBookByISBNEndsOnFailure ==
    /\ rpc = "fetchInfo"
    /\ IF Truthy(bookDetails.isbn)
       THEN \E found \in BOOLEAN :
               /\ calls' = Append(calls, Call("isbnLookup", found))
               /\ IF found
                  THEN /\ \E v \in VolumesOf(variant) :
                             /\ bookInfo' = ISBNInfo(v, bookDetails.isbn)
                             /\ matched' = v
                       /\ rpc' = "resolved"
                  ELSE /\ bookInfo' = DefaultInfo(bookDetails)
                       /\ matched' = matched
                       /\ rpc' = "resolved"
       ELSE /\ calls' = calls
            /\ bookInfo' = bookInfo
            /\ matched' = matched
            /\ rpc' = "search"
    /\ UNCHANGED <<variant, apiKey, bookDetails, previewText, sourceInfo, yields,
                   extractedText, out>>
    /\ UNCHANGED locatorVars
    /\ UNCHANGED <<isValidBookCover, response>>
    /\ UNCHANGED analyzeVars
    /\ UNCHANGED <<viewability, archive>>

\* fetchBookInfo, first part: if (bookDetails.isbn) { try { return await
\* fetchBookByISBN(isbn) } catch { log } }.
FetchBookByISBN ==
    /\ rpc = "fetchInfo"
    /\ IF Truthy(bookDetails.isbn)
       THEN \E found \in BOOLEAN :
               /\ calls' = Append(calls, Call("isbnLookup", found))
               /\ IF found
                  THEN /\ \E v \in VolumesOf(variant) :
                             /\ bookInfo' = ISBNInfo(v, bookDetails.isbn)
                             /\ matched' = v
                       /\ rpc' = "resolved"
                  ELSE /\ bookInfo' = bookInfo
                       /\ matched' = matched
                       /\ rpc' = "search"
       ELSE /\ calls' = calls
            /\ bookInfo' = bookInfo
            /\ matched' = matched
            /\ rpc' = "search"
    /\ UNCHANGED <<variant, apiKey, bookDetails, previewText, sourceInfo, yields,
                   extractedText, out>>
    /\ UNCHANGED locatorVars
    /\ UNCHANGED <<isValidBookCover, response>>
    /\ UNCHANGED analyzeVars
    /\ UNCHANGED <<viewability, archive>>

\* fetchBookInfo, second part: the free-text search when a title is known, and
\* the defaults of the catch block when the search throws or no title is known.
SearchBookAPI ==
    /\ rpc = "search"
    /\ IF Truthy(bookDetails.title)
       THEN \E found \in BOOLEAN :
               /\ calls' = Append(calls, Call("search", found))
               /\ IF found
                  THEN \E v \in VolumesOf(variant) :
                          /\ bookInfo' = SearchInfo(v)
                          /\ matched' = v
                  ELSE /\ bookInfo' = DefaultInfo(bookDetails)
                       /\ matched' = matched
       ELSE /\ calls' = calls
            /\ bookInfo' = DefaultInfo(bookDetails)
            /\ matched' = matched
    /\ rpc' = "resolved"
    /\ UNCHANGED <<variant, apiKey, bookDetails, previewText, sourceInfo, yields,
                   extractedText, out>>
    /\ UNCHANGED locatorVars
    /\ UNCHANGED <<isValidBookCover, response>>
    /\ UNCHANGED analyzeVars
    /\ UNCHANGED <<viewability, archive>>

(***************************************************************************)
(* fetchBookPreviewText (text version): the cascade of four methods.       *)
(***************************************************************************)
Min(a, b) == IF a <= b THEN a ELSE b

Yield(m, what) == [yields EXCEPT ![m] = what]

\* const pageNum = bookInfo.isFiction ? 2 : 1
PageNum(b) == IF Truthy(b.isFiction) THEN 2 ELSE 1

PageCall(n) == IF n = 2 THEN "pageContent?page=2" ELSE "pageContent?page=1"

\* A first method that asks for the page whatever the viewability is.
Method1DetailIgnoresViewability ==
    /\ rpc = "resolved"
    /\ variant = "text"
    /\ \E answer \in {"rejected", "noAccessInfo", "NO_PAGES", "PARTIAL", "ALL_PAGES"} :
          /\ calls' = Append(calls, Call("volumeDetail", answer # "rejected"))
          /\ viewability' = answer
          /\ IF answer = "rejected"
             THEN /\ yields' = Yield("page", "error")
                  /\ rpc' = "m2"
             ELSE /\ yields' = yields
                  /\ rpc' = "m1page"
    /\ UNCHANGED <<variant, apiKey, bookDetails, bookInfo, previewText,
                   sourceInfo, extractedText, out>>
    /\ UNCHANGED locatorVars
    /\ UNCHANGED <<isValidBookCover, response>>
    /\ UNCHANGED analyzeVars
    /\ UNCHANGED <<matched, archive>>

\* Method 1, first request: the volume's accessInfo.viewability.  The request
\* is made for whatever bookInfo.id holds, null included.
Method1Detail ==
    /\ rpc = "resolved"
    /\ variant = "text"
    /\ \E answer \in {"rejected", "noAccessInfo", "NO_PAGES", "PARTIAL", "ALL_PAGES"} :
          /\ calls' = Append(calls, Call("volumeDetail", answer # "rejected"))
          /\ viewability' = answer
          /\ IF answer = "rejected"
             THEN /\ yields' = Yield("page", "error")
                  /\ rpc' = "m2"
             ELSE IF answer \in {"PARTIAL", "ALL_PAGES"}
             THEN /\ yields' = yields
                  /\ rpc' = "m1page"
             ELSE /\ yields' = Yield("page", "empty")
                  /\ rpc' = "m2"
    /\ UNCHANGED <<variant, apiKey, bookDetails, bookInfo, previewText,
                   sourceInfo, extractedText, out>>
    /\ UNCHANGED locatorVars
    /\ UNCHANGED <<isValidBookCover, response>>
    /\ UNCHANGED analyzeVars
    /\ UNCHANGED <<matched, archive>>

\* A first method whose failure is left to the outer catch of
\* fetchBookPreviewText, which returns the fallback message.
Method1PageAbortsOnError ==
    /\ rpc = "m1page"
    /\ \E answer \in {"rejected", "noContent", "content"} :
          /\ calls' = Append(calls, Call(PageCall(PageNum(bookInfo)), answer # "rejected"))
          /\ CASE answer = "content" ->
                    /\ previewText' = [origin |-> "page", len |-> 1500,
                                       page |-> PageNum(bookInfo),
                                       window |-> <<>>, tokens |-> <<>>]
                    /\ sourceInfo' = PageSource
                    /\ yields' = Yield("page", "text")
                    /\ rpc' = "m2"
               [] answer = "noContent" ->
                    /\ previewText' = previewText
                    /\ sourceInfo' = sourceInfo
                    /\ yields' = Yield("page", "empty")
                    /\ rpc' = "m2"
               [] answer = "rejected" ->
                    /\ previewText' = previewText
                    /\ sourceInfo' = sourceInfo
                    /\ yields' = Yield("page", "error")
                    /\ rpc' = "cascadeEnd"
    /\ UNCHANGED <<variant, apiKey, bookDetails, bookInfo, extractedText, out>>
    /\ UNCHANGED locatorVars
    /\ UNCHANGED <<isValidBookCover, response>>
    /\ UNCHANGED analyzeVars
    /\ UNCHANGED <<matched, viewability, archive>>

\* Method 1, second request: the page content, asked for only when the
\* viewability is PARTIAL or ALL_PAGES; its failure is logged.
Method1Page ==
    /\ rpc = "m1page"
    /\ \E answer \in {"rejected", "noContent", "content"} :
          /\ calls' = Append(calls, Call(PageCall(PageNum(bookInfo)), answer # "rejected"))
          /\ CASE answer = "content" ->
                    /\ previewText' = [origin |-> "page", len |-> 1500,
                                       page |-> PageNum(bookInfo),
                                       window |-> <<>>, tokens |-> <<>>]
                    /\ sourceInfo' = PageSource
                    /\ yields' = Yield("page", "text")
               [] answer = "noContent" ->
                    /\ previewText' = previewText
                    /\ sourceInfo' = sourceInfo
                    /\ yields' = Yield("page", "empty")
               [] answer = "rejected" ->
                    /\ previewText' = previewText
                    /\ sourceInfo' = sourceInfo
                    /\ yields' = Yield("page", "error")
    /\ rpc' = "m2"
    /\ UNCHANGED <<variant, apiKey, bookDetails, bookInfo, extractedText, out>>
    /\ UNCHANGED locatorVars
    /\ UNCHANGED <<isValidBookCover, response>>
    /\ UNCHANGED analyzeVars
    /\ UNCHANGED <<matched, viewability, archive>>

\* A second method that runs whether or not text has been found.
Method2OpenLibraryIgnoresText ==
    /\ rpc = "m2"
    /\ IF Truthy(bookInfo.isbn)
       THEN \E answer \in {"rejected", "noEntry", "notFull", "fullNoIa", "fullIa"} :
               /\ calls' = Append(calls, Call("openLibrary", answer # "rejected"))
               /\ CASE answer = "fullIa" ->
                         /\ yields' = yields
                         /\ rpc' = "m2ia"
                    [] answer = "rejected" ->
                         /\ yields' = Yield("archive", "error")
                         /\ rpc' = "m3"
                    [] OTHER ->
                         /\ yields' = Yield("archive", "empty")
                         /\ rpc' = "m3"
       ELSE /\ calls' = calls
            /\ yields' = Yield("archive", "skipped")
            /\ rpc' = "m3"
    /\ UNCHANGED <<variant, apiKey, bookDetails, bookInfo, previewText,
                   sourceInfo, extractedText, out>>
    /\ UNCHANGED locatorVars
    /\ UNCHANGED <<isValidBookCover, response>>
    /\ UNCHANGED analyzeVars
    /\ UNCHANGED <<matched, viewability, archive>>

\* Method 2, first request: if (!previewText && bookInfo.isbn) the Open Library
\* record; the archive is read only when preview === "full" and ia[0] exists.
Method2OpenLibrary ==
    /\ rpc = "m2"
    /\ IF ~TextTruthy(previewText) /\ Truthy(bookInfo.isbn)
       THEN \E answer \in {"rejected", "noEntry", "notFull", "fullNoIa", "fullIa"} :
               /\ calls' = Append(calls, Call("openLibrary", answer # "rejected"))
               /\ CASE answer = "fullIa" ->
                         /\ yields' = yields
                         /\ rpc' = "m2ia"
                    [] answer = "rejected" ->
                         /\ yields' = Yield("archive", "error")
                         /\ rpc' = "m3"
                    [] OTHER ->
                         /\ yields' = Yield("archive", "empty")
                         /\ rpc' = "m3"
       ELSE /\ calls' = calls
            /\ yields' = Yield("archive", "skipped")
            /\ rpc' = "m3"
    /\ UNCHANGED <<variant, apiKey, bookDetails, bookInfo, previewText,
                   sourceInfo, extractedText, out>>
    /\ UNCHANGED locatorVars
    /\ UNCHANGED <<isValidBookCover, response>>
    /\ UNCHANGED analyzeVars
    /\ UNCHANGED <<matched, viewability, archive>>

\* Paragraph counts and paragraph lengths of the archive transcripts.
ArchiveParagraphCounts == {1, 12, 400}
ParagraphLengths == {200, 201}

\* Math.min(30, Math.floor(paragraphs.length * 0.1))
FrontMatterCap == 30
\* bookInfo.isFiction ? contentStart + 5 : contentStart
FictionSkip == 5
\* paragraphs.slice(startParagraph, startParagraph + 10)
WindowParagraphs == 10
\* pageContent.length > 200
MinWindowLength == 200

contentStart(n) == Min(FrontMatterCap, n \div 10)

\* A start that is the same for fiction and non-fiction.
startParagraphWithoutFictionSkip(n, b) == contentStart(n)

startParagraph(n, b) ==
    IF Truthy(b.isFiction) THEN contentStart(n) + FictionSkip ELSE contentStart(n)

\* Indices (from 0) of paragraphs.slice(start, start + 10) of n paragraphs.
Slice(n, start) ==
    LET last == Min(start + WindowParagraphs, n) - 1
    IN  IF last < start THEN <<>> ELSE [k \in 1..(last - start + 1) |-> start + k - 1]

\* Length of k paragraphs of paraLen characters joined by "\n\n".
JoinedLength(k, paraLen) == IF k = 0 THEN 0 ELSE k * paraLen + 2 * (k - 1)

\* Method 2, second request: the archive transcript and its window.
Method2Archive ==
    /\ rpc = "m2ia"
    /\ \E fetched \in BOOLEAN, n \in ArchiveParagraphCounts, paraLen \in ParagraphLengths :
          LET window == Slice(n, startParagraph(n, bookInfo))
              length == JoinedLength(Len(window), paraLen)
          IN  /\ calls' = Append(calls, Call("archiveText", fetched))
              /\ archive' = IF fetched
                            THEN [fetched |-> TRUE, n |-> n, paraLen |-> paraLen,
                                  window |-> window, length |-> length]
                            ELSE NoArchive
              /\ IF ~fetched
                 THEN /\ previewText' = previewText
                      /\ sourceInfo' = sourceInfo
                      /\ yields' = Yield("archive", "error")
                 ELSE IF length > MinWindowLength
                 THEN /\ previewText' = [origin |-> "archive", len |-> length,
                                         page |-> 0, window |-> window,
                                         tokens |-> <<>>]
                      /\ sourceInfo' = ArchiveSource
                      /\ yields' = Yield("archive", "text")
                 ELSE /\ previewText' = previewText
                      /\ sourceInfo' = sourceInfo
                      /\ yields' = Yield("archive", "empty")
    /\ rpc' = "m3"
    /\ UNCHANGED <<variant, apiKey, bookDetails, bookInfo, extractedText, out>>
    /\ UNCHANGED locatorVars
    /\ UNCHANGED <<isValidBookCover, response>>
    /\ UNCHANGED analyzeVars
    /\ UNCHANGED <<matched, viewability>>

\* Method 3: if (!previewText && bookInfo.description && OPENAI_API_KEY) the
\* generated excerpt; previewText = text even when the text is empty.
Method3Excerpt ==
    /\ rpc = "m3"
    /\ IF ~TextTruthy(previewText) /\ Truthy(bookInfo.description) /\ apiKey
       THEN \E answer \in {"rejected", "empty", "text"} :
               /\ calls' = Append(calls, Call("aiExcerpt", answer # "rejected"))
               /\ CASE answer = "text" ->
                         /\ previewText' = [origin |-> "ai", len |-> 1200,
                                            page |-> 0, window |-> <<>>,
                                            tokens |-> <<>>]
                         /\ sourceInfo' = AISource
                         /\ yields' = Yield("ai", "text")
                    [] answer = "empty" ->
                         /\ previewText' = EmptyText
                         /\ sourceInfo' = AISource
                         /\ yields' = Yield("ai", "empty")
                    [] answer = "rejected" ->
                         /\ previewText' = previewText
                         /\ sourceInfo' = sourceInfo
                         /\ yields' = Yield("ai", "error")
       ELSE /\ calls' = calls
            /\ previewText' = previewText
            /\ sourceInfo' = sourceInfo
            /\ yields' = Yield("ai", "skipped")
    /\ rpc' = "m4"
    /\ UNCHANGED <<variant, apiKey, bookDetails, bookInfo, extractedText, out>>
    /\ UNCHANGED locatorVars
    /\ UNCHANGED <<isValidBookCover, response>>
    /\ UNCHANGED analyzeVars
    /\ UNCHANGED <<matched, viewability, archive>>

\* Snippets of the provider, as sequences of words, tags and entities.
Snippets ==
    { <<"<b>", "Dune", "</b>", "is", "set">>,
      <<"<b>", "</b>">>,
      <<"&quot;", "Dune", "&#39;", "&lt;", "&amp;">> }

\* .replace(/<\/?[^>]+(>|$)/g, "")
IsTag(tok) == tok \in {"<b>", "</b>"}

\* .replace(/&quot;/g, '"').replace(/&apos;/g, "'").replace(/&amp;/g, "&")
ReplaceEntity(tok) ==
    CASE tok = "&quot;" -> "\""
      [] tok = "&apos;" -> "'"
      [] tok = "&amp;" -> "&"
      [] OTHER -> tok

cleanSnippet(raw) ==
    LET kept == SelectSeq(raw, LAMBDA tok : ~IsTag(tok))
    IN  [k \in DOMAIN kept |-> ReplaceEntity(kept[k])]

\* Method 4: if (!previewText) the searchInfo.textSnippet of the volume.
Method4Snippet ==
    /\ rpc = "m4"
    /\ IF ~TextTruthy(previewText)
       THEN \E answer \in {"rejected", "noSnippet", "snippet"} :
               /\ calls' = Append(calls, Call("snippet", answer # "rejected"))
               /\ CASE answer = "snippet" ->
                         \E raw \in Snippets :
                            LET clean == cleanSnippet(raw)
                            IN  /\ previewText' =
                                      IF Len(clean) = 0 THEN EmptyText
                                      ELSE [origin |-> "snippet", len |-> Len(clean),
                                            page |-> 0, window |-> <<>>,
                                            tokens |-> clean]
                                /\ sourceInfo' = SnippetSource
                                /\ yields' = Yield("snippet",
                                                   IF Len(clean) = 0 THEN "empty" ELSE "text")
                    [] answer = "noSnippet" ->
                         /\ previewText' = previewText
                         /\ sourceInfo' = sourceInfo
                         /\ yields' = Yield("snippet", "empty")
                    [] answer = "rejected" ->
                         /\ previewText' = previewText
                         /\ sourceInfo' = sourceInfo
                         /\ yields' = Yield("snippet", "error")
       ELSE /\ calls' = calls
            /\ previewText' = previewText
            /\ sourceInfo' = sourceInfo
            /\ yields' = Yield("snippet", "skipped")
    /\ rpc' = "cascadeEnd"
    /\ UNCHANGED <<variant, apiKey, bookDetails, bookInfo, extractedText, out>>
    /\ UNCHANGED locatorVars
    /\ UNCHANGED <<isValidBookCover, response>>
    /\ UNCHANGED analyzeVars
    /\ UNCHANGED <<matched, viewability, archive>>

\* sourceInfo.includes("AI-generated")
IncludesAIGenerated(src) == src = AISource

\* formatBookPageContent: title, author, page heading, the text, and a
\* "Source:" line unless the source is the AI-generated excerpt.
formatBookPageContent(b, pageContent, src) ==
    [kind |-> "page",
     title |-> b.title,
     author |-> b.author,
     pageType |-> IF Truthy(b.isFiction) THEN "Second" ELSE "First",
     content |-> pageContent,
     source |-> IF ~IncludesAIGenerated(src) THEN src ELSE ""]

\* createFallbackPreviewMessage: "# title by author", the description, the
\* preview link and the ISBN when known.
createFallbackPreviewMessage(b) ==
    [kind |-> "unavailable",
     title |-> b.title,
     author |-> b.author,
     pageType |-> IF Truthy(b.isFiction) THEN "second" ELSE "first",
     description |-> IF Truthy(b.description) THEN b.description ELSE "",
     previewLink |-> IF Truthy(b.previewLink) THEN b.previewLink ELSE "",
     isbn |-> IF Truthy(b.isbn) THEN b.isbn ELSE ""]

\* The end of fetchBookPreviewText and the return of processBookCover:
\* { text: pageContent, bookInfo: { ...bookInfo, pageType } }.
CascadeReturn ==
    /\ rpc = "cascadeEnd"
    /\ out' = [kind |-> "result",
               isError |-> FALSE,
               text |-> IF ~TextTruthy(previewText)
                        THEN createFallbackPreviewMessage(bookInfo)
                        ELSE formatBookPageContent(bookInfo, previewText, sourceInfo),
               pageType |-> IF Truthy(bookInfo.isFiction) THEN "second" ELSE "first"]
    /\ rpc' = "done"
    /\ UNCHANGED <<variant, apiKey, bookDetails, bookInfo, calls, previewText,
                   sourceInfo, yields, extractedText>>
    /\ UNCHANGED locatorVars
    /\ UNCHANGED <<isValidBookCover, response>>
    /\ UNCHANGED analyzeVars
    /\ UNCHANGED <<matched, viewability, archive>>

(***************************************************************************)
(* processBookCover (capture version): the viewer, then the transcription. *)
(***************************************************************************)
\* Step 4: const screenshotResult = await
\* extractBookScreenshots(bookInfo.id, bookInfo.isFiction), with no condition
\* on the book information.  The call enters the function, which reads
\* NODE_ENV; its steps are those of the viewer above.
CallExtractScreenshots ==
    /\ rpc = "resolved"
    /\ variant = "capture"
    /\ rpc' = "locating"
    /\ pc' = "entry"
    /\ bookIsFiction' = Truthy(bookInfo.isFiction)
    /\ isProd' \in BOOLEAN
    /\ UNCHANGED <<browserConfig, browser, error, launches, whichIndex>>
    /\ UNCHANGED captureVars
    /\ UNCHANGED <<variant, apiKey, bookDetails, bookInfo, calls, previewText,
                   sourceInfo, yields, extractedText, out>>
    /\ UNCHANGED <<isValidBookCover, response>>
    /\ UNCHANGED analyzeVars
    /\ UNCHANGED <<matched, viewability, archive>>

\* The call of step 4 settles: screenshotResult is the object returned, or,
\* when extractBookScreenshots raised, the catch block of processBookCover
\* rethrows.
ExtractScreenshotsSettles ==
    /\ rpc = "locating"
    /\ pc = "done"
    /\ calls' = Append(calls, Call("extractBookScreenshots",
                                   outcome = "returned" /\ result.success))
    /\ IF outcome = "threw"
       THEN /\ out' = Threw("browser.close() failed")
            /\ rpc' = "done"
       ELSE /\ out' = out
            /\ rpc' = "analyze"
    /\ UNCHANGED <<variant, apiKey, bookDetails, bookInfo, previewText,
                   sourceInfo, yields, extractedText>>
    /\ UNCHANGED locatorVars
    /\ UNCHANGED <<isValidBookCover, response>>
    /\ UNCHANGED analyzeVars
    /\ UNCHANGED <<matched, viewability, archive>>

\* Step 5: analyzeScreenshots, called only when success && screenshots.length > 0.
\* A transcription that fails is logged; one that succeeds is appended under
\* its "--- Screenshot n ---" heading, whatever its text.
AnalyzeScreenshots ==
    /\ rpc = "analyze"
    /\ IF result.success /\ Len(result.screenshots) > 0
       THEN \E answer \in {"rejected", "blank", "text"} :
               /\ calls' = Append(calls, Call("transcribe", answer # "rejected"))
               /\ extractedText' =
                     IF answer = "rejected"
                     THEN EmptyText
                     ELSE LET combined == <<"--- Screenshot 1 ---">> \o
                                          (IF answer = "text" THEN <<"page text">> ELSE <<>>)
                          IN  [origin |-> "capture", len |-> Len(combined),
                               page |-> result.screenshots[1].base64Imagee[1],
                               window |-> <<>>, tokens |-> combined]
       ELSE /\ calls' = calls
            /\ extractedText' = EmptyText
    /\ rpc' = "finish"
    /\ UNCHANGED <<variant, apiKey, bookDetails, bookInfo, previewText,
                   sourceInfo, yields, out>>
    /\ UNCHANGED locatorVars
    /\ UNCHANGED <<isValidBookCover, response>>
    /\ UNCHANGED analyzeVars
    /\ UNCHANGED <<matched, viewability, archive>>

\* createFallbackPreviewMessage of the capture version: "# title by author",
\* the description and the preview link when known.
createFallbackPreviewMessageCapture(b) ==
    [kind |-> "unavailable",
     title |-> b.title,
     author |-> b.author,
     pageType |-> IF Truthy(b.isFiction) THEN "second" ELSE "first",
     description |-> IF Truthy(b.description) THEN b.description ELSE "",
     previewLink |-> IF Truthy(b.previewLink) THEN b.previewLink ELSE "",
     isbn |-> ""]

\* return { text: extractedText || createFallbackPreviewMessage(bookInfo), url,
\*          bookInfo: { ...bookInfo, pageType }, capturedScreenshots }
CaptureReturn ==
    /\ rpc = "finish"
    /\ out' = [kind |-> "result",
               isError |-> FALSE,
               text |-> IF TextTruthy(extractedText)
                        THEN [kind |-> "captured", title |-> bookInfo.title,
                              author |-> bookInfo.author, content |-> extractedText]
                        ELSE createFallbackPreviewMessageCapture(bookInfo),
               pageType |-> IF Truthy(bookInfo.isFiction) THEN "second" ELSE "first",
               capturedScreenshots |-> Len(result.screenshots)]
    /\ rpc' = "done"
    /\ UNCHANGED <<variant, apiKey, bookDetails, bookInfo, calls, previewText,
                   sourceInfo, yields, extractedText>>
    /\ UNCHANGED locatorVars
    /\ UNCHANGED <<isValidBookCover, response>>
    /\ UNCHANGED analyzeVars
    /\ UNCHANGED <<matched, viewability, archive>>

(***************************************************************************)
(* The /api/process handler of the server around processBookCover.         *)
(***************************************************************************)
ErrorBody(status, message) ==
    [status |-> status, body |-> [kind |-> "error", error |-> message]]

\* The handler up to its call of processBookCover: a request without a file is
\* answered 400, a missing API key 500.
ReceiveRequest ==
    /\ rpc = "received"
    /\ \E hasFile \in BOOLEAN :
          IF ~hasFile
          THEN /\ response' = ErrorBody(400, "No image provided")
               /\ rpc' = "responded"
          ELSE IF ~apiKey
          THEN /\ response' = ErrorBody(500, "OpenAI API key is not configured")
               /\ rpc' = "responded"
          ELSE /\ response' = response
               /\ rpc' = "start"
    /\ UNCHANGED <<variant, apiKey, bookDetails, bookInfo, calls, previewText,
                   sourceInfo, yields, extractedText, out, matched, viewability,
                   archive, isValidBookCover>>
    /\ UNCHANGED locatorVars
    /\ UNCHANGED analyzeVars

\* error.message.includes("not a valid book cover")
IsNotACoverError(e) ==
    includes(ErrorMessage(e), Chars("not a valid book cover"))

\* const result = await processBookCover(req.file.buffer); return res.json(result),
\* and the catch block: 400 for a "not a valid book cover" error, 500 otherwise.
\* The handler calls processBookCover only with the API key set.
Respond ==
    /\ rpc = "done"
    /\ variant = "text"
    /\ apiKey
    /\ response' = IF out.kind = "result"
                   THEN [status |-> 200, body |-> out]
                   ELSE IF IsNotACoverError(out)
                   THEN ErrorBody(400, "The image does not appear to be a book cover")
                   ELSE ErrorBody(500, "An error occurred while processing the image")
    /\ rpc' = "responded"
    /\ UNCHANGED <<variant, apiKey, bookDetails, bookInfo, calls, previewText,
                   sourceInfo, yields, extractedText, out, matched, viewability,
                   archive, isValidBookCover>>
    /\ UNCHANGED locatorVars
    /\ UNCHANGED analyzeVars

(***************************************************************************)
(* One request: processBookCover from its entry to its return or throw.    *)
(***************************************************************************)
ProcessNext ==
    \/ CheckApiKey
    \/ ValidateCover
    \/ IdentifyBook
    \/ FetchBookByISBN
    \/ SearchBookAPI
    \/ Method1Detail
    \/ Method1Page
    \/ Method2OpenLibrary
    \/ Method2Archive
    \/ Method3Excerpt
    \/ Method4Snippet
    \/ CascadeReturn
    \/ ReceiveRequest
    \/ Respond

ProcessSpec == ProcessInit /\ [][ProcessNext]_vars

(***************************************************************************)
(* One request to the capture version of processBookCover, from its entry  *)
(* to its return or throw, the run of extractBookScreenshots included.     *)
(***************************************************************************)
CaptureInit ==
    /\ LocatorIdle
    /\ AnalyzeIdle
    /\ isValidBookCover = "unknown"
    /\ response = NoResponse
    /\ variant = "capture"
    /\ apiKey \in BOOLEAN
    /\ rpc = "start"
    /\ bookDetails = NoDetails
    /\ bookInfo = NoInfo
    /\ calls = <<>>
    /\ previewText = EmptyText
    /\ sourceInfo = ""
    /\ yields = [m \in CascadeMethods |-> "untried"]
    /\ extractedText = EmptyText
    /\ out = NoOut
    /\ matched = NoVolume
    /\ viewability = "unknown"
    /\ archive = NoArchive

CaptureNext ==
    \/ CheckApiKey
    \/ ValidateCover
    \/ IdentifyBook
    \/ FetchBookByISBN
    \/ SearchBookAPI
    \/ CallExtractScreenshots
    \/ ProdImport
    \/ ProdExecutablePath
    \/ DevConfig
    \/ ImportChildProcess
    \/ ImportUtil
    \/ Which
    \/ BundledImport
    \/ BundledLaunch
    \/ Launch
    \/ NewPage
    \/ SetViewport
    \/ SetUserAgent
    \/ Goto
    \/ WaitForButton
    \/ LoopTest
    \/ TakeScreenshot
    \/ Classify
    \/ ClickNext
    \/ Found
    \/ PushScreenshot
    \/ DebugWrite
    \/ ReturnNormal
    \/ Catch
    \/ Finally
    \/ ExtractScreenshotsSettles
    \/ AnalyzeScreenshots
    \/ CaptureReturn

CaptureSpec == CaptureInit /\ [][CaptureNext]_vars

(***************************************************************************)
(* The identity built from a provider record, and its classification, on   *)
(* their own: what fetchBookByISBN, and searchBookAPI with fetchBookInfo,  *)
(* make of the first item of an answer.                                    *)
(***************************************************************************)
ClassifyInit ==
    /\ LocatorIdle
    /\ AnalyzeIdle
    /\ isValidBookCover = "unknown"
    /\ response = NoResponse
    /\ variant = "none"
    /\ apiKey = TRUE
    /\ rpc = "record"
    /\ bookDetails = NoDetails
    /\ bookInfo = NoInfo
    /\ calls = <<>>
    /\ previewText = EmptyText
    /\ sourceInfo = ""
    /\ yields = [m \in CascadeMethods |-> "untried"]
    /\ extractedText = EmptyText
    /\ out = NoOut
    /\ matched \in ClassifiedRecords
    /\ viewability = "unknown"
    /\ archive = NoArchive

\* The isbn a lookup is made for.
LookupISBN == "9780441013593"

\* fetchBookByISBN: the object returned for items[0], which fetchBookInfo
\* returns unchanged.
BuildFromISBN ==
    /\ rpc = "record"
    /\ bookInfo' = ISBNInfo(matched, LookupISBN)
    /\ rpc' = "byISBN"
    /\ UNCHANGED <<variant, apiKey, bookDetails, calls, previewText, sourceInfo,
                   yields, extractedText, out, matched, viewability, archive,
                   isValidBookCover, response>>
    /\ UNCHANGED locatorVars
    /\ UNCHANGED analyzeVars

\* searchBookAPI: the object returned for items[0], whose isFiction
\* fetchBookInfo replaces by improvedFictionDetection(...).
BuildFromSearch ==
    /\ rpc = "record"
    /\ bookInfo' = SearchInfo(matched)
    /\ rpc' = "bySearch"
    /\ UNCHANGED <<variant, apiKey, bookDetails, calls, previewText, sourceInfo,
                   yields, extractedText, out, matched, viewability, archive,
                   isValidBookCover, response>>
    /\ UNCHANGED locatorVars
    /\ UNCHANGED analyzeVars

ClassifyNext ==
    \/ BuildFromISBN
    \/ BuildFromSearch

ClassifySpec == ClassifyInit /\ [][ClassifyNext]_vars

Finished == rpc = "done"

(***************************************************************************)
(* analyzeScreenshots on its own: one transcription call per screenshot.   *)
(***************************************************************************)
MaxShots == 3

\* Captured pages as extractBookScreenshots pushes them.
ShotImages == {[index |-> p, base64Imagee |-> <<p>>] : p \in {1, 2}}

ShotLists == UNION {[1..n -> ShotImages] : n \in 0..MaxShots}

\* Identities the caller passes as bookInfo.
AnalyzeInfos ==
    {[NoInfo EXCEPT !.title = "Dune", !.author = "Frank Herbert"],
     [NoInfo EXCEPT !.title = "Unknown Title", !.author = "Unknown Author"]}

\* The model call fails, or answers with white space only, or with the page's text.
TranscriptionAnswers == {"rejected", "blank", "text"}

AnalyzeInit ==
    /\ LocatorIdle
    /\ variant = "none"
    /\ apiKey = TRUE
    /\ rpc = "none"
    /\ bookDetails = NoDetails
    /\ bookInfo \in AnalyzeInfos
    /\ calls = <<>>
    /\ previewText = EmptyText
    /\ sourceInfo = ""
    /\ yields = [m \in CascadeMethods |-> "untried"]
    /\ extractedText = EmptyText
    /\ out = NoOut
    /\ matched = NoVolume
    /\ viewability = "unknown"
    /\ archive = NoArchive
    /\ isValidBookCover = "unknown"
    /\ response = NoResponse
    /\ analyzePc = "loop"
    /\ shots \in ShotLists
    /\ shotIndex = 0
    /\ combinedText = <<>>
    /\ transcript = EmptyTranscript
    /\ pageAnswers = <<>>

\* `\n--- Screenshot ${i + 1} ---\n\n${text.trim()}\n\n`: the ordinal of the
\* page and its trimmed text, <<>> for a text of white space only.
Section(n, screenshot, answer) ==
    [n |-> n, text |-> IF answer = "text" THEN screenshot.base64Imagee ELSE <<>>]

\* A loop body without its own try/catch: the first failure ends the function.
AnalyzePageAbortsOnError ==
    /\ analyzePc = "loop"
    /\ shotIndex < Len(shots)
    /\ \E answer \in TranscriptionAnswers :
          /\ pageAnswers' = Append(pageAnswers, answer)
          /\ IF answer = "rejected"
             THEN /\ combinedText' = combinedText
                  /\ analyzePc' = "threw"
             ELSE /\ combinedText' = Append(combinedText,
                                            Section(shotIndex + 1, shots[shotIndex + 1], answer))
                  /\ analyzePc' = analyzePc
    /\ shotIndex' = shotIndex + 1
    /\ UNCHANGED <<shots, transcript>>
    /\ UNCHANGED locatorVars
    /\ UNCHANGED whichIndex
    /\ UNCHANGED requestVars

\* One iteration of for (let i = 0; i < screenshots.length; i++): the model
\* call inside its own try/catch; a failure is logged and nothing is appended.
AnalyzePage ==
    /\ analyzePc = "loop"
    /\ shotIndex < Len(shots)
    /\ \E answer \in TranscriptionAnswers :
          /\ pageAnswers' = Append(pageAnswers, answer)
          /\ combinedText' =
                IF answer = "rejected"
                THEN combinedText
                ELSE Append(combinedText,
                            Section(shotIndex + 1, shots[shotIndex + 1], answer))
    /\ shotIndex' = shotIndex + 1
    /\ UNCHANGED <<analyzePc, shots, transcript>>
    /\ UNCHANGED locatorVars
    /\ UNCHANGED whichIndex
    /\ UNCHANGED requestVars

\* if (combinedText.trim()) return `# ${title} by ${author}\n\n${combinedText}`
\* else return "": every section starts with its "--- Screenshot n ---" line,
\* so combinedText trims to "" exactly when no section was appended.
AnalyzeReturn ==
    /\ analyzePc = "loop"
    /\ shotIndex >= Len(shots)
    /\ transcript' = IF Len(combinedText) > 0
                     THEN [empty |-> FALSE, title |-> bookInfo.title,
                           author |-> bookInfo.author, sections |-> combinedText]
                     ELSE EmptyTranscript
    /\ analyzePc' = "done"
    /\ UNCHANGED <<shots, shotIndex, combinedText, pageAnswers>>
    /\ UNCHANGED locatorVars
    /\ UNCHANGED whichIndex
    /\ UNCHANGED requestVars

AnalyzeNext ==
    \/ AnalyzePage
    \/ AnalyzeReturn

AnalyzeSpec == AnalyzeInit /\ [][AnalyzeNext]_vars

(***************************************************************************)
(* Properties of extractBookScreenshots.                                   *)
(***************************************************************************)

\* C1: once a browser has been launched, browser.close() has been called by the
\* time the function returns, on every exit path (found, exhausted, error).
C1_ClosedOnEveryExit ==
    (Returned /\ launches > 0) => (closeCalls >= 1 /\ browser = "closed")

\* A run that launched a browser, failed on a screenshot and has returned.
C1_Witness ==
    Returned /\ launches > 0 /\ error = "screenshot" /\ browser = "closed"

\* C2: the page classifier is called at most 15 times in a run.
C2_AtMostMaxAttemptsClassifications == classifyCalls <= MaxAttempts

\* A run that has used all its classification calls.
C2_Witness == classifyCalls = MaxAttempts /\ screenshotCalls = MaxAttempts

\* C3 as stated: in a run where the classifier has accepted, the click attempts
\* issued after the accepting classification number exactly one for fiction
\* and exactly zero for non-fiction.
C3_ClicksAfterAnyAccept ==
    (Returned /\ lastAccept # "none")
        => clicksAfterAccept = (IF bookIsFiction THEN 1 ELSE 0)

\* C3 amended: in a run where the classifier has accepted a page whose
\* screenshot is non-empty, the click attempts issued after that accepting
\* classification number exactly one for fiction and zero for non-fiction.
C3_ClicksAfterAcceptedImage ==
    (Returned /\ lastAccept = "image")
        => clicksAfterAccept = (IF bookIsFiction THEN 1 ELSE 0)

\* A fiction run that accepted an image after some earlier page turns.
C3_Witness ==
    /\ Returned
    /\ lastAccept = "image"
    /\ bookIsFiction
    /\ clickAttempts >= 2
    /\ clicksAfterAccept = 1

\* C4: for a fiction book whose first content page N was accepted and whose
\* further advance succeeded, every screenshot retained in the result shows
\* page N + 1 (base64Screenshot is the image the classifier accepted, page N).
C4_RetainedShowsNextPage ==
    (Returned /\ bookIsFiction /\ lastAccept = "image" /\ fictionAdvance = "ok")
        => \A k \in DOMAIN result.screenshots :
              result.screenshots[k].base64Imagee = <<base64Screenshot[1] + 1>>

\* C5: once a click of the "not yet" branch has been rejected, no further
\* screenshot, classification or click is made in the run.
C5_RejectedClickEndsTheLoop ==
    [][endOfPreview =>
          /\ screenshotCalls' = screenshotCalls
          /\ classifyCalls' = classifyCalls
          /\ clickAttempts' = clickAttempts]_vars

\* C6: when all 15 attempts are used and the classifier accepted none, the
\* function returns normally with success = false and no screenshot, through
\* the normal return and not through the error path.
C6_ExhaustionIsNotFound ==
    (Returned /\ classifyCalls = MaxAttempts /\ lastAccept = "none")
        => /\ outcome = "returned"
           /\ result.success = FALSE
           /\ result.screenshots = <<>>
           /\ result.message = "Successfully captured"
           /\ error = "none"

\* C7: an error raised by launching, opening the page, navigating, waiting for
\* the page or taking a screenshot is returned as a result with success = false
\* and never propagates as an exception.
C7_ViewerErrorsAreReturned ==
    /\ outcome # "threw"
    /\ (Returned /\ error \in {"launch", "newPage", "setViewport", "setUserAgent",
                               "goto", "waitForFunction", "screenshot"})
          => (outcome = "returned" /\ result.success = FALSE)

\* C8: every result holds at most one screenshot, a run in which a content
\* page was found holds exactly one, and only an accepted screenshot is held.
C8_ExactlyOneWhenFound ==
    Returned =>
        /\ Len(result.screenshots) <= 1
        /\ (lastAccept = "image" => Len(result.screenshots) = 1)
        /\ \A k \in DOMAIN result.screenshots :
              foundfirst /\ result.screenshots[k].base64Imagee = base64Screenshot

\* C9: a run that ends with the classifier having accepted a page (foundfirst
\* true, the accepted screenshot a non-empty image) returns a result that holds
\* a captured screenshot.
C9_FoundImpliesCaptured ==
    (Returned /\ foundfirst /\ lastAccept = "image") => Len(result.screenshots) > 0

\* C10: when the viewer opened but never showed a next-page control, the first
\* page is still captured and classified and the run does not end through the
\* error path.
C10_MissingControlIsEndOfPreview ==
    (Returned /\ nextControl = "absent")
        => /\ screenshotCalls >= 1
           /\ classifyCalls >= 1
           /\ result.message # "Error extracting screenshots"

(***************************************************************************)
(* Properties of processBookCover and of fetchBookPreviewText.             *)
(***************************************************************************)
\* The cascade method an external call belongs to; 0 for the calls made before
\* the cascade.
MethodRank(m) ==
    CASE m = "page" -> 1
      [] m = "archive" -> 2
      [] m = "ai" -> 3
      [] m = "snippet" -> 4

CallRank(name) ==
    CASE name \in {"volumeDetail", "pageContent?page=1", "pageContent?page=2"} -> 1
      [] name \in {"openLibrary", "archiveText"} -> 2
      [] name = "aiExcerpt" -> 3
      [] name = "snippet" -> 4
      [] OTHER -> 0

\* C11: the cascade's external calls are issued in the order page content,
\* archive, AI excerpt, snippet; once a method has yielded non-empty text (for
\* the archive, a window longer than the minimum) that text is the preview
\* text, it is what the request returns, and no call of a later method is made.
C11_FirstTextWins ==
    /\ \A k \in DOMAIN calls :
          k > 1 => CallRank(calls[k - 1].call) <= CallRank(calls[k].call)
    /\ \A m \in CascadeMethods :
          yields[m] = "text" =>
             /\ \A n \in CascadeMethods :
                   MethodRank(n) > MethodRank(m) => yields[n] \in {"untried", "skipped"}
             /\ \A k \in DOMAIN calls : CallRank(calls[k].call) <= MethodRank(m)
             /\ previewText.origin = m
             /\ TextTruthy(previewText)
             /\ (m = "archive" => previewText.len > MinWindowLength)
             /\ Finished => /\ out.kind = "result"
                            /\ out.text.kind = "page"
                            /\ out.text.content = previewText

\* A finished request in which the page method was tried without text, the
\* archive window was accepted, and the two later methods were passed over.
C11_Witness ==
    /\ Finished
    /\ Called("volumeDetail")
    /\ yields["page"] \in {"empty", "error"}
    /\ yields["archive"] = "text"
    /\ yields["ai"] = "skipped"
    /\ yields["snippet"] = "skipped"
    /\ ~Called("aiExcerpt")
    /\ ~Called("snippet")
    /\ out.text.content.origin = "archive"

\* Whether method m's own condition holds for the resolved identity: an ISBN
\* for the archive, a description and a model credential for the AI excerpt.
OwnPrecondition(m) ==
    CASE m = "page" -> TRUE
      [] m = "archive" -> Truthy(bookInfo.isbn)
      [] m = "ai" -> Truthy(bookInfo.description) /\ apiKey
      [] m = "snippet" -> TRUE

TextBefore(m) ==
    \E e \in CascadeMethods : MethodRank(e) < MethodRank(m) /\ yields[e] = "text"

\* C12: when the cascade has ended, a method whose provider call threw has not
\* stopped it: every later method was considered, and was passed over only if
\* its own condition fails or an earlier method had produced text; and the
\* unavailable message is returned only when no method produced text.
C12_ErrorsDoNotAbortTheCascade ==
    (variant = "text" /\ rpc \in {"cascadeEnd", "done"} /\ Called("volumeDetail")) =>
        /\ \A m \in CascadeMethods :
              yields[m] = "error" =>
                 \A n \in CascadeMethods :
                    MethodRank(n) > MethodRank(m) =>
                       /\ yields[n] # "untried"
                       /\ yields[n] = "skipped" => (~OwnPrecondition(n) \/ TextBefore(n))
        /\ (Finished /\ out.text.kind = "unavailable") =>
              \A m \in CascadeMethods : yields[m] \in {"empty", "error", "skipped"}

\* A finished request whose first three methods all threw and whose snippet
\* became the returned text.
C12_Witness ==
    /\ Finished
    /\ yields["page"] = "error"
    /\ yields["archive"] = "error"
    /\ yields["ai"] = "error"
    /\ yields["snippet"] = "text"
    /\ out.text.kind = "page"
    /\ out.text.content.origin = "snippet"

\* C13: when the page locator returns success = false (a session or navigation
\* failure, or no content page found), the request attempts the methods of the
\* fallback cascade before it returns the unavailable message.
C13_LocatorFailureFallsBackToCascade ==
    (/\ Finished
     /\ Called("extractBookScreenshots")
     /\ ~result.success
     /\ out.kind = "result"
     /\ out.text.kind = "unavailable")
        => \E k \in DOMAIN calls : CallRank(calls[k].call) > 0

\* fetchBookInfo has returned in this request: identifyBook returned a guess
\* and the request is past the two lookups.
Resolved ==
    /\ rpc \notin {"received", "start", "validate", "identify", "fetchInfo", "search"}
    /\ \E k \in DOMAIN calls : calls[k] = Call("identifyBook", TRUE)
    /\ ~(/\ out.kind = "threw"
          /\ out.error = "Failed to identify the book from the cover")

ResolvedByISBN == Resolved /\ \E k \in DOMAIN calls : calls[k] = Call("isbnLookup", TRUE)

ResolvedBySearch == Resolved /\ \E k \in DOMAIN calls : calls[k] = Call("search", TRUE)

ResolvedByDefaults == Resolved /\ ~ResolvedByISBN /\ ~ResolvedBySearch

\* The resolved identity offers no preview at all: no provider id, no ISBN and
\* no description.
NoPreviewIdentity ==
    /\ Resolved
    /\ bookInfo.id = Null
    /\ ~Truthy(bookInfo.isbn)
    /\ ~Truthy(bookInfo.description)

\* C14: for a resolved identity with provider id null, no ISBN and no
\* description, the request returns the templated unavailable message, and the
\* message contains the book's title and its author.
C14_NoPreviewGivesUnavailable ==
    (Finished /\ NoPreviewIdentity) =>
        /\ out.kind = "result"
        /\ out.text.kind = "unavailable"
        /\ out.text.title = bookInfo.title
        /\ out.text.author = bookInfo.author

\* C15: for a resolved identity with provider id null, no ISBN and no
\* description, no viewer session is launched or navigated during the request.
C15_NoViewerWithoutPreview ==
    NoPreviewIdentity =>
        /\ launches = 0
        /\ ~Called("extractBookScreenshots")

\* The source string of the method a text came from.
SourceOf(origin) ==
    CASE origin = "page" -> PageSource
      [] origin = "archive" -> ArchiveSource
      [] origin = "ai" -> AISource
      [] origin = "snippet" -> SnippetSource
      [] OTHER -> ""

\* C16: every result returned to the caller carries a provenance label that
\* names the path that produced the returned text.  The only such indication a
\* result has is the "Source:" line of a formatted page; the unavailable message
\* and a transcription with its screenshot count are read as naming themselves.
C16_ResultNamesItsSource ==
    (Finished /\ out.kind = "result" /\ ~out.isError) =>
        CASE out.text.kind = "page" ->
                 /\ out.text.source # ""
                 /\ out.text.source = SourceOf(out.text.content.origin)
          [] out.text.kind = "captured" -> out.capturedScreenshots > 0
          [] OTHER -> out.text.kind = "unavailable"

\* C17: whenever the returned text was produced by the AI excerpt method, the
\* result marks it as synthesized.
C17_ExcerptIsMarkedSynthesized ==
    (/\ Finished
     /\ out.kind = "result"
     /\ out.text.kind = "page"
     /\ out.text.content.origin = "ai")
        => out.text.source = AISource

\* C18: processBookCover raises only for a missing credential; a failed model
\* call, resolution, viewer or text retrieval gives a result, not an exception.
C18_RaisesOnlyForConfiguration ==
    Finished =>
        /\ out.kind \in {"result", "threw"}
        /\ out.kind = "threw" => (~apiKey /\ out.error = "OpenAI API key is missing")

\* C19: with the model credential missing, processBookCover, once entered
\* (the handler does not enter it without the credential), raises at once:
\* no model call, lookup, viewer session or cascade method has been started when
\* it raises, and none is started afterwards.
C19_MissingKeyFailsFast ==
    (~apiKey /\ rpc \notin {"received", "responded"}) =>
        /\ rpc \in {"start", "done"}
        /\ calls = <<>>
        /\ launches = 0
        /\ \A m \in CascadeMethods : yields[m] = "untried"
        /\ bookInfo = NoInfo
        /\ Finished => out = Threw("OpenAI API key is missing")

\* A request made without the credential, after it has raised.
C19_Witness ==
    /\ Finished
    /\ ~apiKey
    /\ out.kind = "threw"
    /\ out.error = "OpenAI API key is missing"
    /\ calls = <<>>

\* C20: for a guess that has an ISBN, the ISBN lookup is issued before any
\* free-text search, and a free-text search is issued only after an ISBN lookup
\* that failed.
C20_ISBNLookupBeforeSearch ==
    Truthy(bookDetails.isbn) =>
        /\ \A k \in DOMAIN calls :
              calls[k].call = "search" =>
                 \E j \in 1..(k - 1) : calls[j].call = "isbnLookup" /\ ~calls[j].ok
        /\ rpc \notin {"start", "validate", "identify", "fetchInfo"} => Called("isbnLookup")

\* A guess with an ISBN and a title whose ISBN lookup failed and whose
\* free-text search was then issued.
C20_Witness ==
    /\ Truthy(bookDetails.isbn)
    /\ Len(calls) >= 2
    /\ calls[Len(calls) - 1] = Call("isbnLookup", FALSE)
    /\ calls[Len(calls)].call = "search"

(***************************************************************************)
(* Properties of fetchBookInfo and of the fiction classification.          *)
(***************************************************************************)
\* C21: fetchBookInfo never raises: whatever the guess holds (title, author
\* and ISBN each a value, null or absent) and whichever lookups fail, nothing
\* is thrown during the resolution and the request goes on with an identity,
\* the one built from a provider record or the defaults of the guess; and a
\* failed ISBN lookup is followed by the free-text search whenever the guess
\* has a title.
C21_ResolutionNeverRaises ==
    /\ rpc \in {"fetchInfo", "search", "resolved"} => out = NoOut
    /\ (rpc = "search" /\ Truthy(bookDetails.isbn)) =>
          calls[Len(calls)] = Call("isbnLookup", FALSE)
    /\ rpc = "resolved" =>
          /\ ResolvedByISBN => bookInfo = ISBNInfo(matched, bookDetails.isbn)
          /\ ResolvedBySearch => bookInfo = SearchInfo(matched)
    /\ Resolved =>
          /\ bookInfo # NoInfo
          /\ ResolvedByISBN \/ ResolvedBySearch \/ bookInfo = DefaultInfo(bookDetails)
          /\ (/\ \E k \in DOMAIN calls : calls[k] = Call("isbnLookup", FALSE)
              /\ Truthy(bookDetails.title))
                => Called("search")

\* A guess with an ISBN and a title whose ISBN lookup and free-text search both
\* failed, and for which fetchBookInfo returned the defaults.
C21_Witness ==
    /\ rpc = "resolved"
    /\ calls[Len(calls) - 1] = Call("isbnLookup", FALSE)
    /\ calls[Len(calls)] = Call("search", FALSE)
    /\ bookInfo = DefaultInfo(bookDetails)
    /\ bookInfo.id = Null

\* C22: when both the ISBN lookup and the free-text search fail or cannot be
\* attempted, the identity returned has isFiction = true whatever flag the
\* guess carried, and its provider id, description and preview link are null.
C22_DefaultsAreFiction ==
    ResolvedByDefaults =>
        /\ bookInfo.isFiction = "true"
        /\ bookInfo.id = Null
        /\ bookInfo.description = Null
        /\ bookInfo.previewLink = Null

\* C23: for an identity built from a provider record, by ISBN or by free-text
\* search, a category tag of the record that contains a non-fiction keyword
\* makes isFiction false, whatever the description and the title are.
C23_NonFictionCategoryDecides ==
    (rpc \in {"byISBN", "bySearch"}
        /\ \E k \in DOMAIN matched.categories : IsNonFictionCategory(matched.categories[k]))
        => bookInfo.isFiction = "false"

\* C24: a record whose category tags are exactly "Fiction" and "Science
\* Fiction" is classified as fiction by the category classification.
C24_ScienceFictionIsFiction ==
    (rpc = "byISBN" /\ matched.categories = <<"Fiction", "Science Fiction">>)
        => bookInfo.isFiction = "true"

\* The verdict of the description and title heuristic for a provider record.
HeuristicVerdict(v) ==
    Bool(improvedFictionDetection(<<>>, OrElse(v.description, ""), OrElse(v.title, "")))

\* C25: for an identity built from a provider record without category tags, by
\* ISBN or by free-text search, isFiction is the verdict of the description
\* and title heuristic.
C25_NoCategoriesUsesHeuristic ==
    (rpc \in {"byISBN", "bySearch"} /\ matched.categories = <<>>)
        => bookInfo.isFiction = HeuristicVerdict(matched)

\* Number of words of a list found in the lower-cased description; the scores
\* of the claim, doubled: a short title adds a half, a how-to title adds two.
WordsFound(words, description) ==
    IF Truthy(description)
    THEN Cardinality({w \in words : includes(toLowerCase(Chars(description)), w)})
    ELSE 0

\* C26: with no category tags, as on return from a successful free-text
\* search, the detection returns true exactly when the
\* fiction score (fiction words found in the description, plus a half for a
\* title of at most three words) is greater than or equal to the non-fiction
\* score (non-fiction words found, plus two for a how-to style title).
C26_TieGivesFiction ==
    rpc = "bySearch" =>
        LET description == OrElse(matched.description, "")
            title == matched.title
            short == SplitLength(Chars(title)) <= 3
            howTo == \E pattern \in TitlePatterns :
                        startsWith(toLowerCase(Chars(title)), pattern)
            fiction2 == 2 * WordsFound(fictionWords, description)
                        + (IF short THEN 1 ELSE 0)
            nonfiction2 == 2 * WordsFound(nonfictionWords, description)
                           + (IF howTo THEN 4 ELSE 0)
        IN  (bookInfo.isFiction = "true") <=> (fiction2 >= nonfiction2)

\* A record resolved by search whose two scores are equal and not zero, and
\* which is classified as fiction.
C26_Witness ==
    /\ rpc = "bySearch"
    /\ matched.categories = <<>>
    /\ matched.description = "A history."
    /\ matched.title = "The Left Hand of Darkness"
    /\ fictionSignals(matched.description, matched.title) = 2
    /\ nonfictionSignals(matched.description, matched.title) = 2
    /\ bookInfo.isFiction = "true"

(***************************************************************************)
(* Properties of the single methods of fetchBookPreviewText.               *)
(***************************************************************************)
\* C27: the page-content request is issued only when the viewability answered
\* for the book is PARTIAL or ALL_PAGES, and it asks for page 2 when the book
\* is fiction (the identity's isFiction is truthy) and for page 1 otherwise.
C27_PageRequestFollowsViewability ==
    \A k \in DOMAIN calls :
        CallRank(calls[k].call) = 1 /\ calls[k].call # "volumeDetail" =>
            /\ viewability \in {"PARTIAL", "ALL_PAGES"}
            /\ k > 1
            /\ calls[k - 1] = Call("volumeDetail", TRUE)
            /\ Truthy(bookInfo.isFiction) => calls[k].call = "pageContent?page=2"
            /\ ~Truthy(bookInfo.isFiction) => calls[k].call = "pageContent?page=1"

\* Page 2 has been asked for a fiction book whose viewability is PARTIAL.
C27_Witness ==
    /\ Called("pageContent?page=2")
    /\ viewability = "PARTIAL"
    /\ bookInfo.isFiction = "true"
    /\ yields["page"] = "text"
    /\ previewText.page = 2

\* C28: the archive window is accepted as the cascade's text whenever it is at
\* least 200 characters long, exactly 200 included, and discarded when shorter.
C28_WindowOf200IsAccepted ==
    (archive.fetched /\ rpc # "m2ia") =>
        ((archive.length >= MinWindowLength) <=> (yields["archive"] = "text"))

\* C29: of a transcript of n paragraphs the window starts at paragraph index
\* min(30, floor(n / 10)), five later for fiction (the identity's isFiction
\* is truthy), and holds the paragraphs
\* from that index on, at most ten of them and none past the transcript's end.
C29_WindowOfTenAfterFrontMatter ==
    archive.fetched =>
        LET n == archive.n
            tenth == n \div 10
            start == (IF tenth < 30 THEN tenth ELSE 30)
                     + (IF Truthy(bookInfo.isFiction) THEN 5 ELSE 0)
            expected == {idx \in 0..(n - 1) : start <= idx /\ idx < start + 10}
        IN  /\ Len(archive.window) = Cardinality(expected)
            /\ Len(archive.window) <= 10
            /\ \A k \in DOMAIN archive.window : archive.window[k] = start + k - 1
            /\ \A k \in DOMAIN archive.window : archive.window[k] \in expected

\* A fiction transcript of twelve paragraphs: the window starts at index 6 and
\* holds the six paragraphs that are left.
C29_Witness ==
    /\ archive.fetched
    /\ archive.n = 12
    /\ bookInfo.isFiction = "true"
    /\ archive.window = <<6, 7, 8, 9, 10, 11>>

\* Entities a provider snippet can hold, named and numeric.
HtmlEntities == {"&quot;", "&apos;", "&amp;", "&#39;", "&lt;"}

\* C30: the text returned by the snippet method holds no HTML tag and no HTML
\* entity, whatever snippet the provider returned.
C30_SnippetHasNoMarkup ==
    yields["snippet"] = "text" =>
        \A k \in DOMAIN previewText.tokens :
            /\ ~IsTag(previewText.tokens[k])
            /\ previewText.tokens[k] \notin HtmlEntities

(***************************************************************************)
(* Properties of analyzeScreenshots.                                       *)
(***************************************************************************)
\* The pages whose transcription call succeeded.
Transcribed == {k \in DOMAIN pageAnswers : pageAnswers[k] # "rejected"}

\* C31: in analyzeScreenshots a transcription failure for one page is skipped:
\* every page is tried, the function never raises, the text returned holds the
\* sections of exactly the pages that were transcribed, in page order, each with
\* that page's text, and it is empty exactly when every page failed.
C31_FailedPagesAreSkipped ==
    /\ analyzePc # "threw"
    /\ analyzePc = "done" =>
          /\ Len(pageAnswers) = Len(shots)
          /\ transcript.empty <=> Transcribed = {}
          /\ Len(transcript.sections) = Cardinality(Transcribed)
          /\ \A j \in DOMAIN transcript.sections :
                LET sec == transcript.sections[j]
                IN  /\ sec.n \in Transcribed
                    /\ sec.text = IF pageAnswers[sec.n] = "text"
                                  THEN shots[sec.n].base64Imagee ELSE <<>>
          /\ \A j \in DOMAIN transcript.sections, k \in DOMAIN transcript.sections :
                j < k => transcript.sections[j].n < transcript.sections[k].n

\* Three pages, the second failing: the first and the third are returned.
C31_Witness ==
    /\ analyzePc = "done"
    /\ pageAnswers = <<"text", "rejected", "text">>
    /\ Len(transcript.sections) = 2
    /\ transcript.sections[2].n = 3

\* Positions of the run at which the viewer session is being used.
ViewerSteps == {"newPage", "setViewport", "setUserAgent", "goto", "waitButton",
                "loop", "screenshot", "classify", "clickNext", "found", "push",
                "debugWrite"}

\* C32: a run has at most one browser session: whichever launch fallback is
\* taken at most one launch succeeds, the session is closed at most once, the
\* viewer is used only while the session is open, and once close() has been
\* called the run is over, so that no viewer operation follows it.
C32_OneSessionAtATime ==
    /\ launches <= 1
    /\ closeCalls <= launches
    /\ (browser = "open") <=> (launches = 1 /\ closeCalls = 0)
    /\ pc \in ViewerSteps => browser = "open"
    /\ browser = "closed" => pc = "done"

\* A development run whose bundled Chromium launched: pages were captured with
\* that one session, and it has been closed once.
C32_Witness ==
    /\ Returned
    /\ ~isProd
    /\ browserConfig = "empty"
    /\ launches = 1
    /\ closeCalls = 1
    /\ screenshotCalls > 1
    /\ clickAttempts > 0

\* C33: once the classifier has answered yes for a non-empty screenshot, no
\* further screenshot is taken and no further classification call is made in
\* the run, whichever attempt the acceptance came at.
C33_AcceptedPageIsFinal ==
    [][lastAccept = "image" =>
          /\ screenshotCalls' = screenshotCalls
          /\ classifyCalls' = classifyCalls]_vars

\* The very first screenshot was accepted and the run has returned it, no
\* second classification having been made.
C33_Witness ==
    /\ Returned
    /\ lastAccept = "image"
    /\ classifyCalls = 1
    /\ screenshotCalls = 1
    /\ result.success
    /\ result.screenshots[1].index = 1

\* C34: in every result the function returns, success is true exactly when the
\* returned list of screenshots is non-empty, and a result built by the error
\* path has an empty list even when a screenshot had been captured.
C34_SuccessIffScreenshots ==
    (Returned /\ outcome = "returned") =>
        /\ result.success <=> Len(result.screenshots) > 0
        /\ error # "none" => (result.screenshots = <<>> /\ ~result.success)

\* The accepted screenshot was pushed, the debug write failed, and the result
\* of the error path holds no screenshot.
C34_Witness ==
    /\ Returned
    /\ outcome = "returned"
    /\ error = "debugWrite"
    /\ Len(screenshotsInner) = 1
    /\ result.screenshots = <<>>
    /\ ~result.success

\* C35: a failed model call of the classifier counts as "not yet": the
\* classification step raises nothing and leaves foundfirst false, the loop goes
\* on to the next-page click, and after that click, whatever its outcome, to
\* the next attempt; neither step records an error.
C35_ClassifierFailureIsNotYet ==
    [][/\ (pc = "classify" /\ classifierFailed') =>
             /\ pc' = "clickNext"
             /\ ~foundfirst'
             /\ error' = error
             /\ lastAccept' = lastAccept
       /\ (pc = "clickNext" /\ classifierFailed) =>
             /\ clickAttempts' = clickAttempts + 1
             /\ pc' = "loop"
             /\ i' = i + 1
             /\ error' = error
             /\ outcome' = "pending"]_vars

\* The model call of the second attempt has failed and the loop is at its click.
C35_Witness ==
    /\ pc = "clickNext"
    /\ classifierFailed
    /\ classifyCalls = 2
    /\ ~foundfirst
    /\ error = "none"

\* C36: every attempt takes a fresh screenshot before it calls the classifier
\* and hands the classifier that screenshot (the k-th classification gets the
\* screenshot taken in attempt k); an attempt issues at most one click, after
\* its classification; so a run issues at most 15 screenshots and 15 clicks.
C36_FreshScreenshotPerAttempt ==
    /\ screenshotCalls <= MaxAttempts
    /\ clickAttempts <= MaxAttempts
    /\ clickAttempts <= classifyCalls
    /\ classifyCalls <= screenshotCalls
    /\ screenshotCalls <= classifyCalls + 1
    /\ classifyCalls > 0 => classifiedIteration = classifyCalls
    /\ pc = "classify" =>
          /\ shotIteration = i
          /\ screenshotCalls = i
          /\ classifyCalls = i - 1
    /\ pc \in {"screenshot", "classify", "clickNext", "found"} => clickAttempts <= i - 1

\* All attempts used: the last classification got the screenshot of attempt
\* 15, and every attempt clicked once.
C36_Witness ==
    /\ Returned
    /\ screenshotCalls = MaxAttempts
    /\ classifyCalls = MaxAttempts
    /\ classifiedIteration = MaxAttempts
    /\ clickAttempts = MaxAttempts

(***************************************************************************)
(* Properties of a request (continued).                                    *)
(***************************************************************************)
\* C37: when cover validation answers that the image is not a book cover,
\* processBookCover returns the result with isError = true having made no call
\* but the validation (no identification, no resolver, no viewer, no text
\* retrieval), and the /api/process handler answers with that result, status
\* 200, not with its 400 response.
C37_NotACoverIsAnErrorResult ==
    /\ (Finished /\ isValidBookCover = "false") =>
          /\ out = NotACoverResult
          /\ out.isError
          /\ calls = <<Call("validateBookCover", TRUE)>>
          /\ launches = 0
          /\ bookInfo = NoInfo
          /\ \A m \in CascadeMethods : yields[m] = "untried"
    /\ (rpc = "responded" /\ isValidBookCover = "false") =>
          response = [status |-> 200, body |-> NotACoverResult]

\* The handler has answered a request whose image was judged not to be a cover.
C37_Witness ==
    /\ rpc = "responded"
    /\ isValidBookCover = "false"
    /\ response.status = 200
    /\ response.body = NotACoverResult

\* The transcription has produced some text of the page.
HasPageText == \E k \in DOMAIN extractedText.tokens : extractedText.tokens[k] = "page text"

\* C38: within a request the transcription model is called at most once, and
\* only right after the page locator returned success with a captured
\* screenshot; when the locator failed or captured nothing, or the
\* transcription yielded no text, the text returned is the templated
\* unavailable message.
C38_TranscriptionOnlyAfterCapture ==
    /\ Cardinality({k \in DOMAIN calls : calls[k].call = "transcribe"}) <= 1
    /\ \A k \in DOMAIN calls :
          calls[k].call = "transcribe" =>
              /\ k > 1
              /\ calls[k - 1] = Call("extractBookScreenshots", TRUE)
              /\ result.success
              /\ Len(result.screenshots) > 0
    /\ (/\ Finished
        /\ variant = "capture"
        /\ out.kind = "result"
        /\ ~out.isError
        /\ (~result.success \/ Len(result.screenshots) = 0 \/ ~HasPageText))
          => out.text.kind = "unavailable"

(***************************************************************************)
(* Termination of extractBookScreenshots.                                  *)
(***************************************************************************)
\* C39: provided every external call settles, every run of
\* extractBookScreenshots eventually returns a result to its caller, whatever
\* the classifier's verdicts and the outcomes of the clicks.
C39_EveryRunReturnsAResult == <>(Returned /\ outcome = "returned")

====
